---- MODULE Spec2Model ----
(***************************************************************************)
(* pennywise: the SMS / statement ingestion pipeline.                      *)
(*                                                                         *)
(*   sms_parser.py          classifier gateway + normalisation             *)
(*   models.py              Transaction validation                         *)
(*   transaction_service.py create / update / auto-categorise              *)
(*   sms_service.py         save, process, mark parsed, reprocess          *)
(*   backup_service.py      bulk import                                    *)
(*   routers/sms.py         receive_sms, reprocess_unparsed_sms            *)
(*                                                                         *)
(* Python strings are sequences of one-character strings, so that          *)
(* str.lower(), `in` and the reference regex are computed.  Python values  *)
(* read from JSON are records [t, n, s]: a type tag, a number, a string.   *)
(***************************************************************************)
EXTENDS Integers, Sequences, FiniteSets, TLC

\* ------------------------------------------------------------------ bounds

\* SourceMessages submitted in one behaviour
MaxMsgs == 2

\* requests (ingest, rescan, upload) started in one behaviour
MaxCalls == 4

\* Transaction documents in the store
MaxTxs == 3

\* tokens of a classifier response text
MaxTextLen == 3

\* fields of a classifier JSON object that differ from the prompt's example
MaxOdd == 1

\* entries of a classifier JSON array (bulk import)
MaxBatch == 3

\* ----------------------------------------------------------------- strings

UpperChars == <<"A","B","C","D","E","F","G","H","I","J","K","L","M",
                "N","O","P","Q","R","S","T","U","V","W","X","Y","Z">>

LowerChars == <<"a","b","c","d","e","f","g","h","i","j","k","l","m",
                "n","o","p","q","r","s","t","u","v","w","x","y","z">>

Digits == {"0","1","2","3","4","5","6","7","8","9"}

\* str.lower() on one character
LowerChar(c) ==
    IF \E i \in 1..26 : UpperChars[i] = c
    THEN LowerChars[CHOOSE i \in 1..26 : UpperChars[i] = c]
    ELSE c

\* a string left in the case it has
SameCase(s) == s

\* str.lower()
Lower(s) == [i \in 1..Len(s) |-> LowerChar(s[i])]

\* `k in s` for two strings: k is a contiguous part of s
Contains(s, k) ==
    \E i \in 0..(Len(s) - Len(k)) : SubSeq(s, i + 1, i + Len(k)) = k

\* one or more characters, each of them a letter or a digit
OnlyAlnum(s) ==
    /\ Len(s) > 0
    /\ \A i \in 1..Len(s) :
          \/ s[i] \in Digits
          \/ \E j \in 1..26 : s[i] = UpperChars[j] \/ s[i] = LowerChars[j]

\* re.match(r'^[A-Za-z0-9]+$', s): without re.MULTILINE the $ matches at the
\* end of the string and also just before a newline that ends the string
IsAlnum(s) ==
    \/ OnlyAlnum(s)
    \/ Len(s) > 0 /\ s[Len(s)] = "\n" /\ OnlyAlnum(SubSeq(s, 1, Len(s) - 1))

\* ----------------------------------------------------------- Python values

None == [t |-> "none", n |-> 0, s |-> <<>>]

\* a key that the JSON object does not have
Absent == [t |-> "absent", n |-> 0, s |-> <<>>]

Num(k) == [t |-> "num", n |-> k, s |-> <<>>]

Str(x) == [t |-> "str", n |-> 0, s |-> x]

Bool(b) == [t |-> "bool", n |-> IF b THEN 1 ELSE 0, s |-> <<>>]

\* Python truth value: `if v`, `not v`
Truthy(v) ==
    CASE v.t = "none" -> FALSE
      [] v.t = "bool" -> v.n = 1
      [] v.t = "num"  -> v.n # 0
      [] v.t = "str"  -> v.s # <<>>
      [] OTHER        -> FALSE

\* dict.get(key, default): the default only when the key is missing
Get(d, key, default) == IF d[key].t = "absent" THEN default ELSE d[key]

\* a test that finds every key
HasEveryKey(d, key) == TRUE

\* `key in d` for a dict
HasKey(d, key) == d[key].t # "absent"

s_spent == <<"s","p","e","n","t">>

s_Spent == <<"S","p","e","n","t">>

s_credit == <<"c","r","e","d","i","t">>

s_bogus == <<"b","o","g","u","s">>

s_DEBIT == <<"D","E","B","I","T">>

s_card == <<"c","a","r","d">>

s_upi == <<"u","p","i">>

s_INR == <<"I","N","R">>

s_USD == <<"U","S","D">>

s_Amazon == <<"A","m","a","z","o","n">>

s_Netflix == <<"N","e","t","f","l","i","x">>

s_Salary == <<"S","a","l","a","r","y">>

s_abc == <<"a","b","c">>

s_500 == <<"5","0","0">>

s_REF123 == <<"R","E","F","1","2","3">>

s_REFdash == <<"R","E","F","-","1">>

\* "2025-01-15", "2025-02-15": ISO dates; s_someday is free text
s_jan15 == <<"2","0","2","5","-","0","1","-","1","5">>

s_feb15 == <<"2","0","2","5","-","0","2","-","1","5">>

s_someday == <<"s","o","o","n">>

\* ------------------------------------------------- classifier responses

Fields == {"is_transaction", "transaction_type", "amount", "currency",
           "merchant", "transaction_date", "reference_number",
           "payment_method", "is_failed"}

\* the values the model lets the classifier put in each field of an object
FieldValues ==
    [f \in Fields |->
        CASE f = "is_transaction"   -> {Absent, None, Bool(FALSE), Bool(TRUE)}
          [] f = "transaction_type" -> {Absent, None, Str(s_spent), Str(s_Spent),
                                        Str(s_credit), Str(s_bogus)}
          [] f = "amount"           -> {Absent, None, Str(s_abc), Str(s_500),
                                        Num(0), Num(-5), Num(500), Num(199)}
          [] f = "currency"         -> {Absent, None, Str(s_INR), Str(s_USD)}
          [] f = "merchant"         -> {Absent, None, Str(s_Amazon), Str(s_Netflix)}
          [] f = "transaction_date" -> {Absent, None, Str(s_jan15), Str(s_feb15),
                                        Str(s_someday)}
          [] f = "reference_number" -> {Absent, Str(s_REF123), Str(s_REFdash)}
          [] f = "payment_method"   -> {Absent, None, Str(s_card), Str(s_bogus)}
          [] OTHER                  -> {Absent, None, Bool(TRUE), Bool(FALSE)}]

\* the transactional example of the prompt: "Rs 500 spent on card at Amazon"
ExampleFields ==
    [f \in Fields |->
        CASE f = "is_transaction"   -> Bool(TRUE)
          [] f = "transaction_type" -> Str(s_spent)
          [] f = "amount"           -> Num(500)
          [] f = "currency"         -> Str(s_INR)
          [] f = "merchant"         -> Str(s_Amazon)
          [] f = "transaction_date" -> Str(s_jan15)
          [] f = "reference_number" -> Absent
          [] f = "payment_method"   -> Str(s_card)
          [] OTHER                  -> Bool(FALSE)]

\* the objects that differ from the example in at most k fields
RECURSIVE Objects(_)
Objects(k) ==
    IF k = 0 THEN {ExampleFields}
    ELSE LET S == Objects(k - 1)
         IN  S \cup UNION {{[o EXCEPT ![f] = v] : v \in FieldValues[f]} :
                               o \in S, f \in Fields}

\* a JSON object none of whose keys is present: {}
EmptyFields == [f \in Fields |-> Absent]

\* an element of a JSON array: an object, or null, a string, a number
Entry(shape, o) == [shape |-> shape, f |-> o]

\* what json.loads returns: an object, an array of entries, or a scalar
JsonDict(o) == [shape |-> "dict", f |-> o, items |-> <<>>]

JsonList(items) == [shape |-> "list", f |-> EmptyFields, items |-> items]

JsonScalar(shape) == [shape |-> shape, f |-> EmptyFields, items |-> <<>>]

\* A response text is a sequence of tokens: white space ("ws"), the opening
\* markdown fence with its json tag ("FENCE_JSON"), the bare fence of three
\* backticks ("FENCE"), text that is no JSON ("junk"), and "JSON", the place
\* of one JSON document.
Tokens == {"ws", "FENCE_JSON", "FENCE", "junk", "JSON"}

TextResponse(text, json) ==
    [kind |-> "text", exc |-> "", text |-> text, json |-> json]

\* generate_content_async raised: the service is unreachable or timed out
ErrorResponse(exc) ==
    [kind |-> "error", exc |-> exc, text |-> <<>>, json |-> JsonScalar("null")]

NetworkErrors == {"ServiceUnavailable", "DeadlineExceeded"}

\* -------------------------------------------------------- sms_parser.py

\* the outcome of a piece of Python: a returned value or a raised exception
Return(v) == [st |-> "ret", exc |-> "", v |-> v]

Raise(e) == [st |-> "exc", exc |-> e, v |-> "none"]

TransactionType == {"credit", "debit", "payment", "transfer", "spent", "received"}

PaymentMethod == {"upi", "card", "neft", "imps", "rtgs", "cash", "wallet"}

type_mapping ==
    { <<s_credit, "credit">>,
      << <<"d","e","b","i","t">>, "debit">>,
      << <<"p","a","y","m","e","n","t">>, "payment">>,
      <<s_spent, "spent">>,
      << <<"r","e","c","e","i","v","e","d">>, "received">>,
      << <<"t","r","a","n","s","f","e","r">>, "transfer">> }

method_mapping ==
    { <<s_upi, "upi">>,
      <<s_card, "card">>,
      << <<"n","e","f","t">>, "neft">>,
      << <<"i","m","p","s">>, "imps">>,
      << <<"r","t","g","s">>, "rtgs">>,
      << <<"c","a","s","h">>, "cash">>,
      << <<"w","a","l","l","e","t">>, "wallet">> }

\* mapping.get(key): the value, or None ("none")
Lookup(mapping, key) ==
    IF \E p \in mapping : p[1] = key
    THEN (CHOOSE p \in mapping : p[1] = key)[2]
    ELSE "none"

\* only a str has .lower()
_convert_transaction_type(type_str) ==
    IF type_str.t = "str"
    THEN Return(Lookup(type_mapping, Lower(type_str.s)))
    ELSE Raise("AttributeError")

_convert_payment_method(method_str) ==
    IF method_str.t = "str"
    THEN Return(Lookup(method_mapping, Lower(method_str.s)))
    ELSE Raise("AttributeError")

\* datetime.fromisoformat, as the day of the year 2025 for the ISO strings
\* the model hands out
IsoDates == { <<s_jan15, 15>>, <<s_feb15, 46>> }

\* a date that is always the current time
DateIsNow(date_str, now) == now

\* the bare except turns every failure into utcnow()
_parse_date_from_gemini(date_str, now) ==
    IF date_str.t = "str" /\ \E p \in IsoDates : p[1] = date_str.s
    THEN (CHOOSE p \in IsoDates : p[1] = date_str.s)[2]
    ELSE now

DigitChars == <<"0","1","2","3","4","5","6","7","8","9">>

RECURSIVE DigitsValue(_)
DigitsValue(s) ==
    IF s = <<>> THEN 0
    ELSE 10 * DigitsValue(SubSeq(s, 1, Len(s) - 1))
         + (CHOOSE k \in 0..9 : DigitChars[k + 1] = s[Len(s)])

\* float(x), on whole numbers
Float(x) ==
    CASE x.t = "num"  -> Return(x.n)
      [] x.t = "bool" -> Return(x.n)
      [] x.t = "str"  ->
           IF x.s # <<>> /\ \A i \in 1..Len(x.s) : x.s[i] \in Digits
           THEN Return(DigitsValue(x.s))
           ELSE Raise("ValueError")
      [] OTHER        -> Raise("TypeError")

\* str.strip() of a text: the white space at both ends goes
RECURSIVE LStrip(_)
LStrip(text) ==
    IF text # <<>> /\ Head(text) = "ws" THEN LStrip(Tail(text)) ELSE text

RECURSIVE RStrip(_)
RStrip(text) ==
    IF text # <<>> /\ text[Len(text)] = "ws"
    THEN RStrip(SubSeq(text, 1, Len(text) - 1))
    ELSE text

Strip(text) == RStrip(LStrip(text))

\* the cleaning before json.loads: strip, drop a leading ```json, drop a
\* trailing ```, strip again
CleanJsonText(text) ==
    LET a == Strip(text)
        b == IF a # <<>> /\ Head(a) = "FENCE_JSON" THEN Tail(a) ELSE a
        c == IF b # <<>> /\ b[Len(b)] = "FENCE" THEN SubSeq(b, 1, Len(b) - 1) ELSE b
    IN  Strip(c)

\* json.loads of a cleaned text: exactly one document and nothing else
JsonLoads(text, json) ==
    IF text = <<"JSON">> THEN Return(json) ELSE Raise("JSONDecodeError")

\* the dict process_sms_intelligently returns (some = TRUE), or None
NoData ==
    [some |-> FALSE, transaction_type |-> "none", amount |-> 0,
     currency |-> None, merchant |-> None, transaction_date |-> 0,
     reference_number |-> None, payment_method |-> "none", is_failed |-> None]

ReturnNone == [st |-> "ret", exc |-> "", v |-> NoData]

RaiseIn(e) == [st |-> "exc", exc |-> e, v |-> NoData]

\* the dict literal both parsers build from a JSON object
ParsedDict(o, transaction_type, amount, payment_method, now) ==
    [some             |-> TRUE,
     transaction_type |-> transaction_type,
     amount           |-> amount,
     currency         |-> Get(o, "currency", Str(s_INR)),
     merchant         |-> Get(o, "merchant", None),
     transaction_date |-> _parse_date_from_gemini(
                              Get(o, "transaction_date", Str(<<>>)), now),
     reference_number |-> Get(o, "reference_number", None),
     payment_method   |-> payment_method,
     is_failed        |-> Get(o, "is_failed", Bool(FALSE))]

\* "Validate and convert transaction data": from the amount check to the
\* returned dict, for one JSON object
ConvertObject(o, now) ==
    IF ~HasKey(o, "amount") THEN ReturnNone
    ELSE LET ty == _convert_transaction_type(Get(o, "transaction_type", Str(<<>>)))
         IN
         IF ty.st = "exc" THEN RaiseIn(ty.exc)
         ELSE IF ty.v = "none" THEN ReturnNone
         ELSE LET pm == _convert_payment_method(Get(o, "payment_method", Str(<<>>)))
                  am == Float(o["amount"])
              IN
              IF pm.st = "exc" THEN RaiseIn(pm.exc)
              ELSE IF am.st = "exc" THEN RaiseIn(am.exc)
              ELSE [st |-> "ret", exc |-> "",
                    v |-> ParsedDict(o, ty.v, am.v, pm.v, now)]

\* a handler that lets the failures of the network through
CatchesAllButNetwork(e) ==
    e \in {"JSONDecodeError", "AttributeError", "TypeError", "ValueError"}

\* a handler for the parse error and the failures of the network only
CatchesNoDataError(e) == e \in {"JSONDecodeError"} \cup NetworkErrors

\* what `except Exception` catches: everything a library raises here, but
\* not a BaseException such as CancelledError
IsException(e) ==
    e \in {"JSONDecodeError", "AttributeError", "TypeError", "ValueError"}
          \cup NetworkErrors

\* a parser that does not look at is_transaction
ParseSmsJsonIgnoringFlag(response, now) ==
    LET loaded == JsonLoads(CleanJsonText(response.text), response.json)
    IN
    IF loaded.st = "exc" THEN RaiseIn(loaded.exc)
    ELSE IF loaded.v.shape # "dict" THEN RaiseIn("AttributeError")
    ELSE ConvertObject(loaded.v.f, now)

\* the inner try of process_sms_intelligently, after the empty-text check
ParseSmsJson(response, now) ==
    LET loaded == JsonLoads(CleanJsonText(response.text), response.json)
    IN
    IF loaded.st = "exc" THEN RaiseIn(loaded.exc)
    ELSE LET parsed_data == loaded.v IN
         \* parsed_data.get: only a dict has it
         IF parsed_data.shape # "dict" THEN RaiseIn("AttributeError")
         ELSE IF ~Truthy(Get(parsed_data.f, "is_transaction", Bool(FALSE)))
         THEN ReturnNone
         ELSE ConvertObject(parsed_data.f, now)

process_sms_intelligently(response, now) ==
    LET inner == ParseSmsJson(response, now)
        body ==
            IF response.kind = "error" THEN RaiseIn(response.exc)
            ELSE IF response.text = <<>> THEN ReturnNone
            ELSE IF inner.st = "exc" /\ inner.exc = "JSONDecodeError"
            THEN ReturnNone
            ELSE inner
    IN
    IF body.st = "exc" /\ IsException(body.exc) THEN ReturnNone ELSE body

ReturnList(l) == [st |-> "ret", exc |-> "", v |-> l]

RaiseList(e) == [st |-> "exc", exc |-> e, v |-> <<>>]

\* one turn of the loop "Convert and validate each transaction": the entry
\* is skipped (continue), appended, or an exception leaves the loop
ConvertEntry(tx_data, now) ==
    CASE tx_data.shape = "dict" -> ConvertObject(tx_data.f, now)
         \* `not None`
      [] tx_data.shape = "null" -> ReturnNone
         \* a non-empty string without the word: "amount" not in tx_data
      [] tx_data.shape = "str"  -> ReturnNone
         \* a non-zero number: `"amount" not in 5` is a TypeError
      [] OTHER                  -> RaiseIn("TypeError")

RECURSIVE ConvertEntries(_, _, _)
ConvertEntries(items, valid_transactions, now) ==
    IF items = <<>> THEN ReturnList(valid_transactions)
    ELSE LET r == ConvertEntry(Head(items), now) IN
         IF r.st = "exc" THEN RaiseList(r.exc)
         ELSE ConvertEntries(Tail(items),
                             IF r.v.some THEN Append(valid_transactions, r.v)
                                         ELSE valid_transactions,
                             now)

\* the inner try of parse_backup_file_with_gemini
ParseBackupJson(response, now) ==
    LET loaded == JsonLoads(CleanJsonText(response.text), response.json)
    IN
    IF loaded.st = "exc" THEN RaiseList(loaded.exc)
    ELSE IF loaded.v.shape # "list" THEN ReturnList(<<>>)
    ELSE ConvertEntries(loaded.v.items, <<>>, now)

parse_backup_file_with_gemini(response, now) ==
    LET inner == ParseBackupJson(response, now)
        body ==
            IF response.kind = "error" THEN RaiseList(response.exc)
            ELSE IF response.text = <<>> THEN ReturnList(<<>>)
            ELSE IF inner.st = "exc" /\ inner.exc = "JSONDecodeError"
            THEN ReturnList(<<>>)
            ELSE inner
    IN
    IF body.st = "exc" /\ IsException(body.exc) THEN ReturnList(<<>>) ELSE body

\* ------------------------------------------------------------- models.py

\* a Transaction model without the validator of the amount
ValidTransactionAnyAmount(d) ==
    /\ d.transaction_type \in TransactionType
    /\ d.currency.t = "str"
    /\ d.merchant.t \in {"none", "str"}
    /\ d.reference_number.t \in {"none", "str"}
    /\ (Truthy(d.reference_number) => IsAlnum(d.reference_number.s))
    /\ d.payment_method \in PaymentMethod \cup {"none"}
    /\ d.is_failed.t = "bool"

\* Transaction(**transaction_data): the field types and the two validators.
\* TRUE when the model is built, FALSE when pydantic raises.
ValidTransaction(d) ==
    /\ d.transaction_type \in TransactionType
    /\ d.amount > 0
    /\ d.currency.t = "str"
    /\ d.merchant.t \in {"none", "str"}
    /\ d.reference_number.t \in {"none", "str"}
    /\ (Truthy(d.reference_number) => IsAlnum(d.reference_number.s))
    /\ d.payment_method \in PaymentMethod \cup {"none"}
    /\ d.is_failed.t = "bool"

\* ------------------------------------------------------------------ state

Users == {"u1", "u2"}

\* the requests that may be in progress at the same time
Slots == {1, 2}

VARIABLES
    sms,       \* the sms_messages collection: _id = index, [user_id, parsed]
    txs,       \* the transactions collection: _id = index
    req,       \* per slot: the request in progress and its local variables
    calls,     \* requests started so far
    last,      \* per user: the last request that returned
    cancelled, \* the messages whose ingest request was cancelled
    now,       \* datetime.utcnow(), as a day number
    probe      \* a classifier response handed to the two parsers directly

vars == <<sms, txs, req, calls, last, cancelled, now, probe>>

\* ----------------------------------------------- transaction_service.py

\* the table of _auto_categorize_transaction, in the order of the dict
category_mapping ==
    << <<"grocery",
          <<<<"g","r","o","c","e","r","y">>,
            <<"s","u","p","e","r","m","a","r","k","e","t">>,
            <<"f","o","o","d">>,
            <<"r","e","s","t","a","u","r","a","n","t">>,
            <<"c","a","f","e">>,
            <<"s","w","i","g","g","y">>,
            <<"z","o","m","a","t","o">>,
            <<"b","l","i","n","k","i","t">>,
            <<"b","i","g","b","a","s","k","e","t">>>> >>,
       <<"transport",
          <<<<"u","b","e","r">>,
            <<"o","l","a">>,
            <<"m","e","t","r","o">>,
            <<"b","u","s">>,
            <<"t","r","a","i","n">>,
            <<"f","u","e","l">>,
            <<"p","e","t","r","o","l">>,
            <<"d","i","e","s","e","l">>>> >>,
       <<"shopping",
          <<<<"a","m","a","z","o","n">>,
            <<"f","l","i","p","k","a","r","t">>,
            <<"m","y","n","t","r","a">>,
            <<"s","h","o","p","p","i","n","g">>,
            <<"m","a","l","l">>,
            <<"s","t","o","r","e">>>> >>,
       <<"entertainment",
          <<<<"n","e","t","f","l","i","x">>,
            <<"p","r","i","m","e">>,
            <<"h","o","t","s","t","a","r">>,
            <<"m","o","v","i","e">>,
            <<"c","i","n","e","m","a">>,
            <<"t","h","e","a","t","r","e">>>> >>,
       <<"utilities",
          <<<<"e","l","e","c","t","r","i","c","i","t","y">>,
            <<"w","a","t","e","r">>,
            <<"g","a","s">>,
            <<"i","n","t","e","r","n","e","t">>,
            <<"m","o","b","i","l","e">>,
            <<"a","i","r","t","e","l">>,
            <<"j","i","o">>>> >>,
       <<"healthcare",
          <<<<"h","o","s","p","i","t","a","l">>,
            <<"c","l","i","n","i","c">>,
            <<"p","h","a","r","m","a","c","y">>,
            <<"m","e","d","i","c","a","l">>,
            <<"d","o","c","t","o","r">>>> >>,
       <<"education",
          <<<<"s","c","h","o","o","l">>,
            <<"c","o","l","l","e","g","e">>,
            <<"u","n","i","v","e","r","s","i","t","y">>,
            <<"c","o","u","r","s","e">>,
            <<"t","r","a","i","n","i","n","g">>>> >>,
       <<"travel",
          <<<<"h","o","t","e","l">>,
            <<"f","l","i","g","h","t">>,
            <<"b","o","o","k","i","n","g">>,
            <<"t","r","a","v","e","l">>,
            <<"t","o","u","r","i","s","m">>>> >> >>

\* a loop that does not stop at the first row with a keyword in the name
LastCategory(merchant_lower) ==
    LET hits == {i \in DOMAIN category_mapping :
                    \E j \in DOMAIN category_mapping[i][2] :
                        Contains(merchant_lower, category_mapping[i][2][j])}
    IN  IF hits = {} THEN "none"
        ELSE category_mapping[CHOOSE i \in hits : \A h \in hits : i >= h][1]

\* the loop over category_mapping.items(): the first row one of whose
\* keywords is in merchant_lower, "none" when the loop ends without a break
FirstCategory(merchant_lower) ==
    LET hits == {i \in DOMAIN category_mapping :
                    \E j \in DOMAIN category_mapping[i][2] :
                        Contains(merchant_lower, category_mapping[i][2][j])}
    IN  IF hits = {} THEN "none"
        ELSE category_mapping[CHOOSE i \in hits : \A h \in hits : i <= h][1]

\* the category _auto_categorize_transaction writes for the Transaction
\* object create_transaction holds; "none" when it returns without an update
AutoCategory(transaction) ==
    IF ~Truthy(transaction.merchant) \/ transaction.category \notin {"none", ""}
    THEN "none"
    ELSE FirstCategory(Lower(transaction.merchant.s))

\* Transaction(**transaction_data).dict(), the document insert_one stores
NewTransaction(user_id, sms_message_id, d) ==
    [user_id          |-> user_id,
     sms_message_id   |-> sms_message_id,
     transaction_type |-> d.transaction_type,
     amount           |-> d.amount,
     currency         |-> d.currency,
     merchant         |-> d.merchant,
     category         |-> IF "category" \in DOMAIN d THEN d.category ELSE "none",
     transaction_date |-> d.transaction_date,
     reference_number |-> d.reference_number,
     payment_method   |-> d.payment_method,
     is_failed        |-> d.is_failed,
     is_recurring     |-> FALSE]

\* update_one({"_id": transaction_id, "user_id": user_id}, {"$set": ...}) of
\* the category: the collection after it
SetCategory(user_id, transaction_id, category) ==
    [i \in DOMAIN txs |->
        IF i = transaction_id /\ txs[i].user_id = user_id
        THEN [txs[i] EXCEPT !.category = category]
        ELSE txs[i]]

\* ---------------------------------------------------------- sms_service.py

\* SMSMessage(user_id=..., ...).dict(): parsed defaults to False
NewSms(user_id) ==
    [user_id |-> user_id, sender |-> "BANK", message_text |-> "text",
     parsed |-> FALSE]

\* a filter on the owner alone
AllMessagesOf(user_id) == {i \in DOMAIN sms : sms[i].user_id = user_id}

\* the filter of get_unparsed_sms_messages
Unparsed(user_id) ==
    {i \in DOMAIN sms : sms[i].user_id = user_id /\ sms[i].parsed = FALSE}

\* the orders a cursor may return the documents of S in: the sort key is the
\* timestamp the caller supplied with each message, which is not held here
Orders(S) ==
    {q \in [1..Cardinality(S) -> S] : \A i, j \in DOMAIN q : q[i] = q[j] => i = j}

\* an update that matches no document
MarkNothing(sms_id) == sms

\* update_one({"_id": sms_id}, {"$set": {"parsed": True}})
MarkParsed(sms_id) ==
    [i \in DOMAIN sms |-> IF i = sms_id THEN [sms[i] EXCEPT !.parsed = TRUE]
                                        ELSE sms[i]]

\* the classifier answers a request may get for one message
SmsResponses ==
    << ErrorResponse("ServiceUnavailable"),
       TextResponse(<<"junk">>, JsonScalar("null")),
       TextResponse(<<"JSON">>,
           JsonDict([ExampleFields EXCEPT !["is_transaction"] = Bool(FALSE)])),
       TextResponse(<<"FENCE_JSON", "JSON", "FENCE">>, JsonDict(ExampleFields)),
       TextResponse(<<"ws", "JSON", "ws">>,
           JsonDict([ExampleFields EXCEPT !["transaction_type"] = Str(s_credit),
                                          !["amount"] = Num(199),
                                          !["merchant"] = Str(s_Netflix),
                                          !["payment_method"] = Absent])),
       TextResponse(<<"JSON">>,
           JsonDict([ExampleFields EXCEPT !["payment_method"] = None])),
       TextResponse(<<"JSON">>,
           JsonDict([ExampleFields EXCEPT !["amount"] = Num(-5)])) >>

\* a float that is a quotient of two whole numbers, in lowest terms
Whole(n) == [num |-> n, den |-> 1]

\* the AnalyticsResponse get_analytics builds when nothing matches, and when
\* it catches an exception
ZeroResponse ==
    [total_transactions        |-> 0,
     total_amount              |-> 0,
     average_amount            |-> Whole(0),
     transaction_count_by_type |-> <<>>,
     amount_by_type            |-> <<>>,
     top_merchants             |-> <<>>,
     top_categories            |-> <<>>,
     monthly_trends            |-> <<>>,
     failed_transactions       |-> 0,
     recurring_transactions    |-> 0]

IdleReq ==
    [op |-> "idle", pc |-> "idle", user_id |-> "", queue |-> <<>>,
     items |-> <<>>, batch |-> <<>>, found |-> 0, errors |-> 0,
     sms_id |-> 0, parsed_data |-> NoData, tx_id |-> 0,
     results |-> <<>>, log |-> <<>>, snap |-> {}, status |-> "",
     window |-> <<None, None>>, out |-> ZeroResponse]

NoCall == [op |-> "none", results |-> <<>>, parsed |-> {}, at |-> 0]

NoProbe == [stage |-> "none", response |-> ErrorResponse(""),
            sms |-> ReturnNone, backup |-> ReturnList(<<>>),
            again |-> ReturnNone, at |-> 0]

Init ==
    /\ sms = <<>>
    /\ txs = <<>>
    /\ req = [r \in Slots |-> IdleReq]
    /\ calls = 0
    /\ last = [u \in Users |-> NoCall]
    /\ cancelled = {}
    /\ now = 60
    /\ probe = NoProbe

\* the request of slot r goes on with its next message, or returns
Advance(rq) ==
    IF rq.op = "rescan" /\ rq.queue # <<>>
    THEN [rq EXCEPT !.pc = "classify", !.sms_id = Head(rq.queue),
                    !.queue = Tail(rq.queue),
                    !.parsed_data = NoData, !.tx_id = 0]
    ELSE [rq EXCEPT !.pc = "done"]

\* process_backup_file goes to the next entry of transactions_data
NextEntry(rq) ==
    IF Tail(rq.batch) = <<>>
    THEN [rq EXCEPT !.batch = <<>>, !.pc = "done"]
    ELSE [rq EXCEPT !.batch = Tail(rq.batch), !.pc = "insert", !.tx_id = 0]

\* the dict create_transaction is called with
TransactionData(rq) ==
    IF rq.op = "upload" THEN Head(rq.batch) ELSE rq.parsed_data

\* a caller that does not look at what create_transaction returned
MarkedAnyway(rq) == [rq EXCEPT !.pc = "mark"]

\* a run that ends at the first message without a transaction
StopRun(rq) == [rq EXCEPT !.pc = "done"]

\* create_transaction returned None to its caller
NotCreated(rq) ==
    IF rq.op = "upload"
    THEN NextEntry([rq EXCEPT !.errors = @ + 1])
    ELSE Advance(rq)

\* a loop that neither lists a created transaction nor counts an error
CreatedUnlisted(rq) ==
    IF rq.op = "upload"
    THEN NextEntry(rq)
    ELSE IF rq.op = "post"
    THEN [rq EXCEPT !.pc = "done",
                    !.results = <<[sms_id |-> 0, transaction_id |-> rq.tx_id]>>]
    ELSE [rq EXCEPT !.pc = "mark"]

\* create_transaction returned the Transaction to its caller
Created(rq) ==
    IF rq.op = "upload"
    THEN NextEntry([rq EXCEPT !.results =
             Append(@, [sms_id |-> 0, transaction_id |-> rq.tx_id])])
    ELSE IF rq.op = "post"
    THEN [rq EXCEPT !.pc = "done",
                    !.results = <<[sms_id |-> 0, transaction_id |-> rq.tx_id]>>]
    ELSE [rq EXCEPT !.pc = "mark"]

\* POST /sms/
BeginIngest(r, user_id, alone) ==
    /\ req[r].op = "idle"
    /\ alone => \A q \in Slots : req[q].op = "idle"
    /\ calls < MaxCalls
    /\ Len(sms) < MaxMsgs
    /\ req' = [req EXCEPT ![r] = [IdleReq EXCEPT !.op = "ingest", !.pc = "save",
                                                 !.user_id = user_id]]
    /\ calls' = calls + 1
    /\ UNCHANGED <<sms, txs, last, cancelled, now, probe>>

\* save_sms: insert_one
SaveSms(r) ==
    /\ req[r].pc = "save"
    /\ Len(sms) < MaxMsgs
    /\ sms' = Append(sms, NewSms(req[r].user_id))
    /\ req' = [req EXCEPT ![r].pc = "classify", ![r].sms_id = Len(sms) + 1]
    /\ UNCHANGED <<txs, calls, last, cancelled, now, probe>>

\* save_sms: insert_one raises, save_sms returns None, receive_sms answers 500
SaveSmsFail(r) ==
    /\ req[r].pc = "save"
    /\ req' = [req EXCEPT ![r].pc = "done", ![r].status = "error"]
    /\ UNCHANGED <<sms, txs, calls, last, cancelled, now, probe>>

\* POST /sms/reprocess
BeginRescan(r, user_id, alone) ==
    /\ req[r].op = "idle"
    /\ alone => \A q \in Slots : req[q].op = "idle"
    /\ calls < MaxCalls
    /\ req' = [req EXCEPT ![r] = [IdleReq EXCEPT !.op = "rescan", !.pc = "find",
                                                 !.user_id = user_id]]
    /\ calls' = calls + 1
    /\ UNCHANGED <<sms, txs, last, cancelled, now, probe>>

\* get_unparsed_sms_messages, and the start of the loop of
\* reprocess_unparsed_sms
GetUnparsed(r) ==
    /\ req[r].pc = "find"
    /\ \E q \in Orders(Unparsed(req[r].user_id)) :
          req' = [req EXCEPT ![r] =
                    Advance([@ EXCEPT !.queue = q,
                                      !.snap = {i \in DOMAIN sms :
                                                  /\ sms[i].user_id = req[r].user_id
                                                  /\ ~sms[i].parsed}])]
    /\ UNCHANGED <<sms, txs, calls, last, cancelled, now, probe>>

\* get_unparsed_sms_messages: the find raises, the list is empty
GetUnparsedFail(r) ==
    /\ req[r].pc = "find"
    /\ req' = [req EXCEPT ![r].pc = "done"]
    /\ UNCHANGED <<sms, txs, calls, last, cancelled, now, probe>>

\* process_sms_for_transactions up to `if not parsed_data`: the classifier
\* answers, process_sms_intelligently turns the answer into a dict or None
ProcessSmsWith(r, response, i) ==
    /\ req[r].pc = "classify"
    /\ LET out == process_sms_intelligently(response, now)
           rq  == [req[r] EXCEPT !.log =
                     Append(@, [sms_id |-> req[r].sms_id, response |-> i])]
       IN  req' = [req EXCEPT ![r] =
                     IF out.st = "ret" /\ out.v.some
                     THEN [rq EXCEPT !.pc = "insert", !.parsed_data = out.v]
                     ELSE Advance(rq)]
    /\ UNCHANGED <<sms, txs, calls, last, cancelled, now, probe>>

\* the classifier gives one of its answers
ProcessSms(r) == \E i \in DOMAIN SmsResponses : ProcessSmsWith(r, SmsResponses[i], i)

\* create_transaction: Transaction(**transaction_data) and insert_one
CreateTransaction(r) ==
    /\ req[r].pc = "insert"
    /\ IF ValidTransaction(TransactionData(req[r]))
       THEN /\ Len(txs) < MaxTxs
            /\ txs' = Append(txs, NewTransaction(req[r].user_id, req[r].sms_id,
                                                 TransactionData(req[r])))
            /\ req' = [req EXCEPT ![r].pc = "categorize",
                                  ![r].tx_id = Len(txs) + 1]
       ELSE /\ txs' = txs
            /\ req' = [req EXCEPT ![r] = NotCreated(@)]
    /\ UNCHANGED <<sms, calls, last, cancelled, now, probe>>

\* create_transaction: insert_one raises, None is returned
CreateTransactionFail(r) ==
    /\ req[r].pc = "insert"
    /\ ValidTransaction(TransactionData(req[r]))
    /\ req' = [req EXCEPT ![r] = NotCreated(@)]
    /\ UNCHANGED <<sms, txs, calls, last, cancelled, now, probe>>

\* the Transaction object create_transaction passes on
InMemory(rq) == NewTransaction(rq.user_id, rq.sms_id, TransactionData(rq))

\* _auto_categorize_transaction, then create_transaction returns
Categorize(r) ==
    /\ req[r].pc = "categorize"
    /\ txs' = IF AutoCategory(InMemory(req[r])) # "none"
              THEN SetCategory(req[r].user_id, req[r].tx_id,
                               AutoCategory(InMemory(req[r])))
              ELSE txs
    /\ req' = [req EXCEPT ![r] = Created(@)]
    /\ UNCHANGED <<sms, calls, last, cancelled, now, probe>>

\* _auto_categorize_transaction: the update raises, which is logged
CategorizeFail(r) ==
    /\ req[r].pc = "categorize"
    /\ AutoCategory(InMemory(req[r])) # "none"
    /\ req' = [req EXCEPT ![r] = Created(@)]
    /\ UNCHANGED <<sms, txs, calls, last, cancelled, now, probe>>

\* what process_sms_for_transactions returns after mark_sms_as_parsed
WithResult(rq) ==
    Advance([rq EXCEPT !.results =
                Append(@, [sms_id |-> rq.sms_id, transaction_id |-> rq.tx_id])])

\* mark_sms_as_parsed, and the dict process_sms_for_transactions returns
MarkSmsAsParsed(r) ==
    /\ req[r].pc = "mark"
    /\ sms' = MarkParsed(req[r].sms_id)
    /\ req' = [req EXCEPT ![r] = WithResult(@)]
    /\ UNCHANGED <<txs, calls, last, cancelled, now, probe>>

\* mark_sms_as_parsed: update_one raises, False is returned and not looked at
MarkSmsAsParsedFail(r) ==
    /\ req[r].pc = "mark"
    /\ req' = [req EXCEPT ![r] = WithResult(@)]
    /\ UNCHANGED <<sms, txs, calls, last, cancelled, now, probe>>

\* the response goes out
Finish(r) ==
    /\ req[r].pc = "done"
    /\ last' = [last EXCEPT ![req[r].user_id] =
                   [op |-> req[r].op, results |-> req[r].results,
                    parsed |-> {i \in DOMAIN sms : sms[i].parsed},
                    at |-> now]]
    /\ req' = [req EXCEPT ![r] = IdleReq]
    /\ UNCHANGED <<sms, txs, calls, cancelled, now, probe>>

\* the client goes away while receive_sms waits for the classifier or the
\* store: CancelledError is no Exception, no handler catches it
Cancel(r) ==
    /\ req[r].op = "ingest"
    /\ req[r].pc \in {"classify", "insert", "categorize", "mark"}
    /\ cancelled' = cancelled \cup {req[r].sms_id}
    /\ req' = [req EXCEPT ![r] = IdleReq]
    /\ UNCHANGED <<sms, txs, calls, last, now, probe>>

\* the steps of a request once it has started
Step(r) ==
    \/ SaveSms(r)
    \/ GetUnparsed(r)
    \/ ProcessSms(r)
    \/ CreateTransaction(r)
    \/ Categorize(r)
    \/ MarkSmsAsParsed(r)
    \/ Finish(r)

\* a store operation raises
Fault(r) ==
    \/ SaveSmsFail(r)
    \/ GetUnparsedFail(r)
    \/ CreateTransactionFail(r)
    \/ CategorizeFail(r)
    \/ MarkSmsAsParsedFail(r)

\* one request at a time, the store never fails
Next ==
    \/ \E u \in Users : BeginIngest(1, u, TRUE)
    \/ \E u \in Users : BeginRescan(1, u, TRUE)
    \/ Step(1)

Spec == Init /\ [][Next]_vars

\* one request at a time, store operations may fail
NextFaults == Next \/ Fault(1)

SpecFaults == Init /\ [][NextFaults]_vars

\* one request at a time, an ingest may be cancelled
NextCancel == Next \/ Cancel(1)

SpecCancel == Init /\ [][NextCancel]_vars

\* the requests of one owner interleave at their awaits, the store never
\* fails
NextConc ==
    \/ \E r \in Slots : BeginIngest(r, "u1", FALSE)
    \/ \E r \in Slots : BeginRescan(r, "u1", FALSE)
    \/ \E r \in Slots : Step(r)

SpecConc == Init /\ [][NextConc]_vars

\* ------------------------------------------- the two parsers on their own

Texts == UNION {[1..n -> Tokens] : n \in 0..MaxTextLen}

CountJson(text) == Cardinality({i \in DOMAIN text : text[i] = "JSON"})

\* entries of a JSON array
BatchEntries ==
    {Entry("dict", o) : o \in Objects(1)}
        \cup {Entry("null", EmptyFields), Entry("str", EmptyFields),
              Entry("num", EmptyFields)}

\* the documents a text may hold at its "JSON" token
ProbeJsons ==
    {JsonDict(o) : o \in Objects(MaxOdd)}
        \cup {JsonScalar(s) : s \in {"null", "str", "num"}}
        \cup {JsonList(<<>>)}
        \cup {JsonList(<<e>>) : e \in BatchEntries}

\* every text, with a document when it has exactly one "JSON" token
ProbeResponses ==
    {ErrorResponse(e) : e \in NetworkErrors}
        \cup {TextResponse(t, j) :
                t \in {x \in Texts : CountJson(x) = 1}, j \in ProbeJsons}
        \cup {TextResponse(t, JsonScalar("null")) :
                t \in {x \in Texts : CountJson(x) # 1}}

InitClassify ==
    /\ sms = <<>>
    /\ txs = <<>>
    /\ req = [r \in Slots |-> IdleReq]
    /\ calls = 0
    /\ last = [u \in Users |-> NoCall]
    /\ cancelled = {}
    /\ now = 60
    /\ \E response \in ProbeResponses :
          probe = [NoProbe EXCEPT !.stage = "asked", !.response = response]

\* classify: process_sms_intelligently on the response
ClassifySms ==
    /\ probe.stage = "asked"
    /\ probe' = [probe EXCEPT !.stage = "sms", !.at = now,
                     !.sms = process_sms_intelligently(probe.response, now)]
    /\ UNCHANGED <<sms, txs, req, calls, last, cancelled, now>>

\* classify_batch: parse_backup_file_with_gemini on the response
ClassifyBatch ==
    /\ probe.stage = "asked"
    /\ probe' = [probe EXCEPT !.stage = "backup",
                     !.backup = parse_backup_file_with_gemini(probe.response, now)]
    /\ UNCHANGED <<sms, txs, req, calls, last, cancelled, now>>

NextClassify == ClassifySms \/ ClassifyBatch

SpecClassify == InitClassify /\ [][NextClassify]_vars

\* ------------------------------------------------------ backup_service.py

\* the second valid object, and the ways the prompt's example goes wrong
NetflixFields ==
    [ExampleFields EXCEPT !["transaction_type"] = Str(s_credit),
                          !["amount"] = Num(199),
                          !["merchant"] = Str(s_Netflix),
                          !["payment_method"] = Str(s_upi)]

BulkEntries ==
    {Entry("dict", ExampleFields), Entry("dict", NetflixFields),
     Entry("null", EmptyFields), Entry("str", EmptyFields),
     Entry("num", EmptyFields)}
        \cup {Entry("dict", [ExampleFields EXCEPT !["amount"] = v]) :
                 v \in {Absent, None, Str(s_abc), Num(-5)}}
        \cup {Entry("dict", [ExampleFields EXCEPT !["transaction_type"] = v]) :
                 v \in {None, Str(s_bogus)}}
        \cup {Entry("dict", [ExampleFields EXCEPT !["payment_method"] = None])}

Batches == UNION {[1..n -> BulkEntries] : n \in 0..MaxBatch}

\* the classifier answers an upload may get
BatchResponses ==
    {ErrorResponse("DeadlineExceeded"),
     TextResponse(<<"junk">>, JsonScalar("null")),
     TextResponse(<<"JSON">>, JsonDict(ExampleFields))}
        \cup {TextResponse(<<"JSON">>, JsonList(items)) : items \in Batches}
        \cup {TextResponse(<<"FENCE_JSON", "JSON", "FENCE">>, JsonList(items)) :
                 items \in {b \in Batches : Len(b) = 1}}

\* uploads started in one behaviour
MaxUploads == 1

\* POST /backup/upload
BeginUpload(r, user_id) ==
    /\ req[r].op = "idle"
    /\ \A q \in Slots : req[q].op = "idle"
    /\ calls < MaxUploads
    /\ req' = [req EXCEPT ![r] = [IdleReq EXCEPT !.op = "upload", !.pc = "batch",
                                                 !.user_id = user_id]]
    /\ calls' = calls + 1
    /\ UNCHANGED <<sms, txs, last, cancelled, now, probe>>

\* process_backup_file up to its loop: the classifier answers,
\* parse_backup_file_with_gemini returns transactions_data
ParseBackupFileWith(r, response) ==
    /\ req[r].pc = "batch"
    /\ LET out == parse_backup_file_with_gemini(response, now)
           rq  == [req[r] EXCEPT !.items = response.json.items]
       IN  req' = [req EXCEPT ![r] =
                     IF out.st = "exc"
                     THEN [rq EXCEPT !.pc = "done", !.status = "error",
                                     !.errors = 1]
                     ELSE IF out.v = <<>>
                     THEN [rq EXCEPT !.pc = "done"]
                     ELSE [rq EXCEPT !.pc = "insert", !.batch = out.v,
                                     !.found = Len(out.v)]]
    /\ UNCHANGED <<sms, txs, calls, last, cancelled, now, probe>>

\* the classifier gives one of its answers
ParseBackupFile(r) == \E response \in BatchResponses : ParseBackupFileWith(r, response)

\* uploads, one at a time, the store never fails
NextBulk ==
    \/ \E u \in Users : BeginUpload(1, u)
    \/ ParseBackupFile(1)
    \/ CreateTransaction(1)
    \/ Categorize(1)
    \/ Finish(1)

SpecBulk == Init /\ [][NextBulk]_vars

\* uploads, one at a time, the writes to the store may fail
NextBulkFaults == NextBulk \/ CreateTransactionFail(1) \/ CategorizeFail(1)

SpecBulkFaults == Init /\ [][NextBulkFaults]_vars

\* the pipeline, and the two parsers on every response text
NextAll == (probe.stage = "none" /\ Next) \/ NextClassify

SpecAll == (Init \/ InitClassify) /\ [][NextAll]_vars

\* ------------------------------------------ normalisation on its own

\* times the clock moves between two runs
MaxTicks == 1

\* JSON objects marked is_transaction=true, every field good or bad
NormalizeObjects ==
    {[f \in Fields |->
        CASE f = "is_transaction"   -> Bool(TRUE)
          [] f = "transaction_type" -> ty
          [] f = "amount"           -> am
          [] f = "currency"         -> cu
          [] f = "merchant"         -> me
          [] f = "transaction_date" -> da
          [] f = "reference_number" -> re
          [] f = "payment_method"   -> pm
          [] OTHER                  -> fa] :
        ty \in {Absent, None, Str(s_spent), Str(s_Spent), Str(s_DEBIT),
                Str(s_bogus)},
        am \in {Absent, None, Num(0), Num(-5), Num(500)},
        cu \in {None, Str(s_INR)},
        me \in {None, Str(s_Amazon)},
        da \in {Absent, None, Str(s_jan15), Str(s_someday)},
        re \in {Absent, Str(s_REFdash)},
        pm \in {Absent, None, Str(s_card), Str(s_bogus)},
        fa \in {None, Bool(FALSE)}}

\* each object as the answer for one message, and as a one-entry array
NormalizeResponses ==
    {TextResponse(<<"JSON">>, JsonDict(o)) : o \in NormalizeObjects}
        \cup {TextResponse(<<"JSON">>, JsonList(<<Entry("dict", o)>>)) :
                 o \in NormalizeObjects}

InitNormalize ==
    /\ sms = <<>>
    /\ txs = <<>>
    /\ req = [r \in Slots |-> IdleReq]
    /\ calls = 0
    /\ last = [u \in Users |-> NoCall]
    /\ cancelled = {}
    /\ now = 60
    /\ \E response \in NormalizeResponses :
          probe = [NoProbe EXCEPT !.stage = "asked", !.response = response]

\* the answer for one message
OneAnswer == probe.response.json.shape = "dict"

\* process_sms_intelligently on the answer
NormalizeOnce == calls = 0 /\ OneAnswer /\ ClassifySms

\* time passes
Tick ==
    /\ probe.stage = "sms"
    /\ now < 60 + MaxTicks
    /\ now' = now + 1
    /\ UNCHANGED <<sms, txs, req, calls, last, cancelled, probe>>

\* process_sms_intelligently on the same answer, later
NormalizeAgain ==
    /\ probe.stage = "sms"
    /\ probe' = [probe EXCEPT !.stage = "again",
                     !.again = process_sms_intelligently(probe.response, now)]
    /\ UNCHANGED <<sms, txs, req, calls, last, cancelled, now>>

\* POST /sms/ with a message that gets the answer
IngestAnswer ==
    /\ probe.stage = "asked" /\ OneAnswer /\ calls = 0
    /\ BeginIngest(1, "u1", TRUE)

\* POST /backup/upload with a file that gets the one-entry array
UploadAnswer ==
    /\ probe.stage = "asked" /\ ~OneAnswer /\ calls = 0
    /\ BeginUpload(1, "u1")

NextNormalize ==
    \/ NormalizeOnce
    \/ Tick
    \/ NormalizeAgain
    \/ IngestAnswer
    \/ UploadAnswer
    \/ SaveSms(1)
    \/ ProcessSmsWith(1, probe.response, 0)
    \/ ParseBackupFileWith(1, probe.response)
    \/ CreateTransaction(1)
    \/ Categorize(1)
    \/ MarkSmsAsParsed(1)
    \/ Finish(1)

SpecNormalize == InitNormalize /\ [][NextNormalize]_vars

\* ------------------------------------------------- routers/transactions.py

s_AmazonFood == <<"A","m","a","z","o","n"," ","F","o","o","d">>

s_AMAZONPRIME == <<"A","M","A","Z","O","N"," ","P","R","I","M","E">>

s_Uber == <<"U","b","e","r">>

s_Cola == <<"C","o","l","a">>

s_HotelGas == <<"H","o","t","e","l"," ","G","a","s">>

s_Clinic == <<"C","l","i","n","i","c">>

s_School == <<"S","c","h","o","o","l">>

s_Flights == <<"F","l","i","g","h","t","s">>

\* the counterparties a client sends with POST /transactions/
PostMerchants ==
    {None, Str(<<>>), Str(s_Amazon), Str(s_Netflix), Str(s_Salary),
     Str(s_AmazonFood), Str(s_AMAZONPRIME), Str(s_Uber), Str(s_Cola),
     Str(s_HotelGas), Str(s_Clinic), Str(s_School), Str(s_Flights)}

\* the categories a client sends: null, the empty string, two names
PostCategories == {"none", "", "bills", "travel"}

\* TransactionCreate(...).dict(), as far as Transaction reads it
TransactionCreate(merchant, category) ==
    [some             |-> TRUE,
     transaction_type |-> "spent",
     amount           |-> 500,
     currency         |-> Str(s_INR),
     merchant         |-> merchant,
     category         |-> category,
     transaction_date |-> 15,
     reference_number |-> None,
     payment_method   |-> "none",
     is_failed        |-> Bool(FALSE)]

\* POST /transactions/ calls create_transaction with the body of the request
BeginPost(r, user_id, transaction_data) ==
    /\ \A q \in Slots : req[q].op = "idle"
    /\ calls < MaxCalls
    /\ req' = [req EXCEPT ![r] = [IdleReq EXCEPT !.op = "post",
                                                  !.pc = "insert",
                                                  !.user_id = user_id,
                                                  !.parsed_data = transaction_data]]
    /\ calls' = calls + 1
    /\ UNCHANGED <<sms, txs, last, cancelled, now, probe>>

PostOne ==
    /\ calls = 0
    /\ \E user_id \in Users, merchant \in PostMerchants, category \in PostCategories :
           BeginPost(1, user_id, TransactionCreate(merchant, category))

NextCategorize == PostOne \/ CreateTransaction(1) \/ Categorize(1) \/ Finish(1)

SpecCategorize == Init /\ [][NextCategorize]_vars

\* ------------------------------------- detect_recurring_transactions

\* timedelta(days=180)
RecurringDays == 180

\* the runs of detect_recurring_transactions in one behaviour
MaxRuns == 2

\* the calendar behind $dayOfMonth, $month and $year: day 1 is 2025-01-01,
\* day 0 is 2024-12-31, for the days of 2024 and 2025
YearOf(t) == IF t >= 1 THEN 2025 ELSE 2024

DayOfYear(t) == IF t >= 1 THEN t ELSE t + 366

MonthLengths(year) ==
    IF year = 2024 THEN <<31, 29, 31, 30, 31, 30, 31, 31, 30, 31, 30, 31>>
    ELSE <<31, 28, 31, 30, 31, 30, 31, 31, 30, 31, 30, 31>>

RECURSIVE MonthWalk(_, _, _)
MonthWalk(lengths, m, d) ==
    IF d <= lengths[m] THEN <<m, d>>
    ELSE MonthWalk(lengths, m + 1, d - lengths[m])

MonthOf(t) == MonthWalk(MonthLengths(YearOf(t)), 1, DayOfYear(t))[1]

DayOfMonth(t) == MonthWalk(MonthLengths(YearOf(t)), 1, DayOfYear(t))[2]

\* a stored transaction as create_transaction leaves it: inserted, then
\* categorized from its counterparty
LedgerEntry(user_id, merchant, amount, transaction_date, transaction_type, is_failed) ==
    LET transaction ==
            NewTransaction(user_id, 0,
                [some             |-> TRUE,
                 transaction_type |-> transaction_type,
                 amount           |-> amount,
                 currency         |-> Str(s_INR),
                 merchant         |-> merchant,
                 transaction_date |-> transaction_date,
                 reference_number |-> None,
                 payment_method   |-> "none",
                 is_failed        |-> Bool(is_failed)])
    IN  [transaction EXCEPT !.category = AutoCategory(transaction)]

\* the transactions the collection is filled from: a subscription on the 2nd
\* of five months (one 180 days before the first run, one older, one after
\* the first run), another counterparty with the same amount and day, no
\* counterparty, another amount, another day, another owner, a failed one
Ledger ==
    << LedgerEntry("u1", Str(s_Netflix), 199, 2, "spent", FALSE),
       LedgerEntry("u1", Str(s_Netflix), 199, 33, "spent", FALSE),
       LedgerEntry("u1", Str(s_Netflix), 199, -120, "spent", FALSE),
       LedgerEntry("u1", Str(s_Netflix), 199, -151, "spent", FALSE),
       LedgerEntry("u1", Str(s_Netflix), 199, 61, "spent", FALSE),
       LedgerEntry("u1", Str(s_Amazon), 199, 2, "credit", FALSE),
       LedgerEntry("u1", Str(s_Amazon), 199, 33, "spent", FALSE),
       LedgerEntry("u1", None, 199, 33, "spent", FALSE),
       LedgerEntry("u1", Str(s_Netflix), 500, 33, "spent", FALSE),
       LedgerEntry("u1", Str(s_Netflix), 199, 46, "spent", FALSE),
       LedgerEntry("u2", Str(s_Netflix), 199, 33, "spent", FALSE),
       LedgerEntry("u1", Str(s_Amazon), 500, 15, "debit", TRUE) >>

\* the entries of Ledger with an index in S, in the order of Ledger
RECURSIVE Keep(_, _)
Keep(i, S) ==
    IF i > Len(Ledger) THEN <<>>
    ELSE (IF i \in S THEN <<Ledger[i]>> ELSE <<>>) \o Keep(i + 1, S)

InitLedger ==
    /\ sms = <<>>
    /\ txs \in {Keep(1, S) : S \in SUBSET DOMAIN Ledger}
    /\ req = [r \in Slots |-> IdleReq]
    /\ calls = 0
    /\ last = [u \in Users |-> NoCall]
    /\ cancelled = {}
    /\ now = 60
    /\ probe = NoProbe

\* a $match that passes over the transactions that are flagged already
MatchUnflagged(user_id, six_months_ago) ==
    {i \in DOMAIN txs : /\ txs[i].user_id = user_id
                        /\ txs[i].transaction_date >= six_months_ago
                        /\ txs[i].merchant # None
                        /\ ~txs[i].is_recurring}

\* the first $match of the pipeline
RecurringMatch(user_id, six_months_ago) ==
    {i \in DOMAIN txs : /\ txs[i].user_id = user_id
                        /\ txs[i].transaction_date >= six_months_ago
                        /\ txs[i].merchant # None}

\* the _id of the $group
GroupKey(i) ==
    [merchant     |-> txs[i].merchant,
     amount       |-> txs[i].amount,
     day_of_month |-> DayOfMonth(txs[i].transaction_date)]

\* the elements of a set of numbers, smallest first
RECURSIVE Ascending(_)
Ascending(S) ==
    IF S = {} THEN <<>>
    ELSE LET least == CHOOSE i \in S : \A j \in S : i <= j
         IN  <<least>> \o Ascending(S \ {least})

\* one document of the $group, as the dict the loop appends for it
RecurringGroup(key, matched) ==
    LET members == Ascending({i \in matched : GroupKey(i) = key})
    IN  [merchant     |-> key.merchant,
         amount       |-> key.amount,
         day_of_month |-> key.day_of_month,
         frequency    |-> Len(members),
         transactions |-> [k \in DOMAIN members |->
                              [id               |-> members[k],
                               transaction_date |-> txs[members[k]].transaction_date,
                               amount           |-> txs[members[k]].amount]]]

\* $group, then $match count >= 2
RecurringGroups(user_id, six_months_ago) ==
    LET matched == RecurringMatch(user_id, six_months_ago)
    IN  {g \in {RecurringGroup(GroupKey(i), matched) : i \in matched} :
            g.frequency >= 2}

\* $sort count -1: groups of the same count come in any order
SortedByCount(groups) ==
    {q \in Orders(groups) :
        \A i, j \in DOMAIN q : i < j => q[i].frequency >= q[j].frequency}

\* the ids update_transaction is called with
MemberIds(results) ==
    UNION {{results[g].transactions[k].id : k \in DOMAIN results[g].transactions} :
              g \in DOMAIN results}

\* a detection that writes the flag of every transaction of the owner: True
\* for the members of a group, False for the others
MarkOnlyMembers(user_id, ids) ==
    [i \in DOMAIN txs |->
        IF txs[i].user_id = user_id
        THEN [txs[i] EXCEPT !.is_recurring = (i \in ids)]
        ELSE txs[i]]

\* update_transaction(user_id, id, {"is_recurring": True}) for every id
MarkRecurring(user_id, ids) ==
    [i \in DOMAIN txs |->
        IF i \in ids /\ txs[i].user_id = user_id
        THEN [txs[i] EXCEPT !.is_recurring = TRUE]
        ELSE txs[i]]

\* GET /transactions/recurring/detect
DetectRecurring(r, user_id) ==
    /\ \A q \in Slots : req[q].op = "idle"
    /\ \E results \in SortedByCount(RecurringGroups(user_id, now - RecurringDays)) :
          /\ req' = [req EXCEPT ![r] = [IdleReq EXCEPT !.op = "detect",
                                                       !.pc = "done",
                                                       !.user_id = user_id,
                                                       !.results = results]]
          /\ txs' = MarkRecurring(user_id, MemberIds(results))
    /\ calls' = calls + 1
    /\ UNCHANGED <<sms, last, cancelled, now, probe>>

\* time passes between two requests
Later ==
    /\ \A q \in Slots : req[q].op = "idle"
    /\ calls > 0
    /\ now < 60 + MaxTicks
    /\ now' = now + 1
    /\ UNCHANGED <<sms, txs, req, calls, last, cancelled, probe>>

NextLedger ==
    \/ calls < MaxRuns /\ \E user_id \in Users : DetectRecurring(1, user_id)
    \/ Later
    \/ Finish(1)

SpecLedger == InitLedger /\ [][NextLedger]_vars

\* ------------------------------------------------------------ get_analytics

\* $limit of the two top lists
TopLimit == 10

\* a window that stops before end_date
MatchingBeforeEnd(user_id, start_date, end_date) ==
    {i \in DOMAIN txs :
        /\ txs[i].user_id = user_id
        /\ start_date # None => txs[i].transaction_date >= start_date.n
        /\ end_date # None => txs[i].transaction_date < end_date.n}

\* the $match of every pipeline: the query built from the two optional dates
Matching(user_id, start_date, end_date) ==
    {i \in DOMAIN txs :
        /\ txs[i].user_id = user_id
        /\ start_date # None => txs[i].transaction_date >= start_date.n
        /\ end_date # None => txs[i].transaction_date <= end_date.n}

\* {"$sum": "$amount"} over the documents at the places S
RECURSIVE SumAmount(_)
SumAmount(S) ==
    IF S = {} THEN 0
    ELSE LET i == CHOOSE i \in S : TRUE
         IN  txs[i].amount + SumAmount(S \ {i})

RECURSIVE GCD(_, _)
GCD(a, b) == IF b = 0 THEN a ELSE GCD(b, a % b)

\* {"$avg": "$amount"} over the documents at the places S, which is not empty
AvgAmount(S) ==
    LET total == SumAmount(S)
        n     == Cardinality(S)
    IN  [num |-> total \div GCD(total, n), den |-> n \div GCD(total, n)]

\* {"$group": {"_id": key, "count": ..., "amount": ...}} over the places S
GroupBy(S, Key(_)) ==
    {[_id    |-> Key(i),
      count  |-> Cardinality({j \in S : Key(j) = Key(i)}),
      amount |-> SumAmount({j \in S : Key(j) = Key(i)})] : i \in S}

\* {"$sort": {"amount": -1}}: groups of the same amount come in any order
RECURSIVE SortedByAmount(_)
SortedByAmount(groups) ==
    IF groups = {} THEN {<<>>}
    ELSE UNION {{<<g>> \o rest : rest \in SortedByAmount(groups \ {g})} :
                   g \in {g \in groups : \A h \in groups : g.amount >= h.amount}}

\* {"$limit": n}
Limit(q, n) == SubSeq(q, 1, IF Len(q) < n THEN Len(q) ELSE n)

MerchantOf(i) == txs[i].merchant

CategoryOf(i) == txs[i].category

TypeOf(i) == txs[i].transaction_type

YearMonthOf(i) ==
    [year  |-> YearOf(txs[i].transaction_date),
     month |-> MonthOf(txs[i].transaction_date)]

\* the list comprehension after the merchant pipeline: "if item[_id]"
TopMerchants(merchant_results) ==
    LET named == SelectSeq(merchant_results, LAMBDA item : Truthy(item._id))
    IN  [k \in DOMAIN named |-> [merchant |-> named[k]._id,
                                 count    |-> named[k].count,
                                 amount   |-> named[k].amount]]

\* the list comprehension after the category pipeline: "if item[_id]"
TopCategories(category_results) ==
    LET named == SelectSeq(category_results,
                           LAMBDA item : item._id \notin {"none", ""})
    IN  [k \in DOMAIN named |-> [category |-> named[k]._id,
                                 count    |-> named[k].count,
                                 amount   |-> named[k].amount]]

\* the trend pipeline: {"$sort": {"_id.year": 1, "_id.month": 1}}
MonthlyTrends(S) ==
    LET groups == GroupBy(S, YearMonthOf)
        q == CHOOSE q \in Orders(groups) :
                 \A i, j \in DOMAIN q :
                     i < j => \/ q[i]._id.year < q[j]._id.year
                              \/ /\ q[i]._id.year = q[j]._id.year
                                 /\ q[i]._id.month < q[j]._id.month
    IN  [k \in DOMAIN q |-> [year   |-> q[k]._id.year,
                             month  |-> q[k]._id.month,
                             count  |-> q[k].count,
                             amount |-> q[k].amount]]

\* the AnalyticsResponse for the places S, given what the merchant and the
\* category pipeline returned
Analytics(S, merchant_results, category_results) ==
    IF S = {} THEN ZeroResponse
    ELSE
    [total_transactions        |-> Cardinality(S),
     total_amount              |-> SumAmount(S),
     average_amount            |-> AvgAmount(S),
     transaction_count_by_type |->
         [ty \in {TypeOf(i) : i \in S} |-> Cardinality({j \in S : TypeOf(j) = ty})],
     amount_by_type            |->
         [ty \in {TypeOf(i) : i \in S} |-> SumAmount({j \in S : TypeOf(j) = ty})],
     top_merchants             |-> TopMerchants(merchant_results),
     top_categories            |-> TopCategories(category_results),
     monthly_trends            |-> MonthlyTrends(S),
     failed_transactions       |-> Cardinality({i \in S : txs[i].is_failed = Bool(TRUE)}),
     recurring_transactions    |-> Cardinality({i \in S : txs[i].is_recurring})]

\* GET /transactions/analytics/summary
GetAnalytics(r, user_id, start_date, end_date) ==
    /\ \A q \in Slots : req[q].op = "idle"
    /\ LET S == Matching(user_id, start_date, end_date) IN
       \E merchant_sorted \in SortedByAmount(GroupBy(S, MerchantOf)),
          category_sorted \in SortedByAmount(GroupBy(S, CategoryOf)) :
          req' = [req EXCEPT ![r] =
                    [IdleReq EXCEPT !.op = "analytics",
                                    !.pc = "done",
                                    !.user_id = user_id,
                                    !.window = <<start_date, end_date>>,
                                    !.out = Analytics(S,
                                                Limit(merchant_sorted, TopLimit),
                                                Limit(category_sorted, TopLimit))]]
    /\ calls' = calls + 1
    /\ UNCHANGED <<sms, txs, last, cancelled, now, probe>>

\* the start_date and end_date a client sends: none, or a day
StartDates == {None, Num(2), Num(33)}

EndDates == {None, Num(33), Num(46)}

NextAnalytics ==
    \/ calls < MaxRuns /\ \E user_id \in Users : DetectRecurring(1, user_id)
    \/ /\ calls < MaxRuns
       /\ \E user_id \in Users, start_date \in StartDates, end_date \in EndDates :
             GetAnalytics(1, user_id, start_date, end_date)
    \/ Finish(1)

\* the entries of Ledger the snapshots are taken of: one of 2024, the two
\* counterparties on two days of 2025, no counterparty, another owner, a
\* failed one
SnapshotEntries == {1, 2, 3, 6, 7, 8, 11, 12}

InitAnalytics ==
    /\ sms = <<>>
    /\ txs \in {Keep(1, S) : S \in SUBSET SnapshotEntries}
    /\ req = [r \in Slots |-> IdleReq]
    /\ calls = 0
    /\ last = [u \in Users |-> NoCall]
    /\ cancelled = {}
    /\ now = 60
    /\ probe = NoProbe

SpecAnalytics == InitAnalytics /\ [][NextAnalytics]_vars

\* the counterparties and categories the collection of the top lists is
\* filled from: twelve counterparties, each with a category of its own
Shops ==
    << <<Str(<<"A","s","h","a">>), "rent">>,
       <<Str(<<"B","o","s","e">>), "fees">>,
       <<Str(<<"C","i","t","i">>), "bills">>,
       <<Str(<<"D","e","l","l">>), "gadgets">>,
       <<Str(<<"E","s","s","o">>), "petrol">>,
       <<Str(<<"F","i","a","t">>), "cars">>,
       <<Str(<<"G","u","c","c","i">>), "clothes">>,
       <<Str(<<"H","e","r","t","z">>), "rental">>,
       <<Str(<<"I","k","e","a">>), "home">>,
       <<Str(<<"J","e","e","p">>), "repairs">>,
       <<Str(<<"K","i","a">>), "leasing">>,
       <<Str(<<"L","e","g","o">>), "toys">> >>

\* the transaction of shop k: the k-th smallest amount, sent with its category
ShopEntry(k) ==
    NewTransaction("u1", 0,
        [some             |-> TRUE,
         transaction_type |-> "spent",
         amount           |-> 10 * k,
         currency         |-> Str(s_INR),
         merchant         |-> Shops[k][1],
         category         |-> Shops[k][2],
         transaction_date |-> 15,
         reference_number |-> None,
         payment_method   |-> "none",
         is_failed        |-> Bool(FALSE)])

\* transactions without counterparty and category: none, a small one, one
\* larger than every shop's
Nameless ==
    {<<>>,
     <<LedgerEntry("u1", None, 5, 15, "spent", FALSE)>>,
     <<LedgerEntry("u1", None, 500, 15, "spent", FALSE)>>}

\* the transactions of the shops in S, smallest amount first
RECURSIVE ShopEntries(_, _)
ShopEntries(k, S) ==
    IF k > Len(Shops) THEN <<>>
    ELSE (IF k \in S THEN <<ShopEntry(k)>> ELSE <<>>) \o ShopEntries(k + 1, S)

InitTop ==
    /\ sms = <<>>
    /\ txs \in {ShopEntries(1, S) \o nameless :
                   S \in SUBSET DOMAIN Shops, nameless \in Nameless}
    /\ req = [r \in Slots |-> IdleReq]
    /\ calls = 0
    /\ last = [u \in Users |-> NoCall]
    /\ cancelled = {}
    /\ now = 60
    /\ probe = NoProbe

NextTop ==
    \/ /\ calls < MaxRuns
       /\ \E end_date \in {None, Num(46)} : GetAnalytics(1, "u1", None, end_date)
    \/ Finish(1)

SpecTop == InitTop /\ [][NextTop]_vars

\* ----------------------------------------- get, list, update and delete

\* the requests of one behaviour at the boundary
MaxOps == 2

\* what delete_one leaves at the place of a transaction: no document, which
\* no filter on user_id matches
Deleted == NewTransaction("", 0, NoData)

\* what delete_one leaves at the place of a message
DeletedSms == [NewSms("") EXCEPT !.parsed = TRUE]

\* a filter on the _id alone
OwnedByAnyone(user_id, transaction_id) == transaction_id \in DOMAIN txs

\* a filter {"_id": ObjectId(transaction_id), "user_id": user_id} matches
Owns(user_id, transaction_id) ==
    /\ transaction_id \in DOMAIN txs
    /\ txs[transaction_id].user_id = user_id

\* a filter {"_id": ObjectId(sms_id), "user_id": user_id} matches
OwnsSms(user_id, sms_id) ==
    /\ sms_id \in DOMAIN sms
    /\ sms[sms_id].user_id = user_id

\* a request that is answered in one step: 200 with the entities named in
\* results, or 404
Respond(r, op, user_id, transaction_id, sms_id, found, results) ==
    req' = [req EXCEPT ![r] =
              [IdleReq EXCEPT !.op = op,
                              !.pc = "done",
                              !.user_id = user_id,
                              !.tx_id = transaction_id,
                              !.sms_id = sms_id,
                              !.status = IF found THEN "ok" ELSE "not_found",
                              !.results = results]]

\* GET /transactions/{transaction_id}
GetTransaction(r, user_id, transaction_id) ==
    /\ \A q \in Slots : req[q].op = "idle"
    /\ Respond(r, "get", user_id, transaction_id, 0, Owns(user_id, transaction_id),
               IF Owns(user_id, transaction_id)
               THEN <<[sms_id |-> 0, transaction_id |-> transaction_id]>>
               ELSE <<>>)
    /\ calls' = calls + 1
    /\ UNCHANGED <<sms, txs, last, cancelled, now, probe>>

\* GET /transactions/ without filters: find({"user_id": user_id}) sorted by
\* transaction_date, latest first, equal dates in any order
ListTransactions(r, user_id) ==
    /\ \A q \in Slots : req[q].op = "idle"
    /\ \E q \in Orders({i \in DOMAIN txs : txs[i].user_id = user_id}) :
          /\ \A i, j \in DOMAIN q :
                i < j => txs[q[i]].transaction_date >= txs[q[j]].transaction_date
          /\ Respond(r, "list", user_id, 0, 0, TRUE,
                     [k \in DOMAIN q |-> [sms_id |-> 0, transaction_id |-> q[k]]])
    /\ calls' = calls + 1
    /\ UNCHANGED <<sms, txs, last, cancelled, now, probe>>

\* the bodies of PUT /transactions/{transaction_id}: TransactionUpdate has
\* merchant, category, remarks and tags, and update_transaction drops the
\* fields that are None
UpdateBodies ==
    {[merchant |-> m, category |-> c] :
        m \in {None, Str(s_Amazon)}, c \in {"none", "bills"}}

\* {"$set": update_data} on one document
SetFields(transaction, update_data) ==
    [transaction EXCEPT
        !.merchant = IF update_data.merchant # None
                     THEN update_data.merchant ELSE @,
        !.category = IF update_data.category # "none"
                     THEN update_data.category ELSE @]

\* PUT /transactions/{transaction_id}: updated_at is always set, so a
\* document that matches is modified
UpdateOne(r, user_id, transaction_id, update_data) ==
    /\ req[r].op = "idle"
    /\ txs' = IF Owns(user_id, transaction_id)
              THEN [txs EXCEPT ![transaction_id] = SetFields(@, update_data)]
              ELSE txs
    /\ Respond(r, "update", user_id, transaction_id, 0, Owns(user_id, transaction_id),
               IF Owns(user_id, transaction_id)
               THEN <<[sms_id |-> 0, transaction_id |-> transaction_id]>>
               ELSE <<>>)
    /\ calls' = calls + 1
    /\ UNCHANGED <<sms, last, cancelled, now, probe>>

\* the same, while no other request is in progress
UpdateTransaction(r, user_id, transaction_id, update_data) ==
    /\ \A q \in Slots : req[q].op = "idle"
    /\ UpdateOne(r, user_id, transaction_id, update_data)

\* a delete that also puts the message of the transaction back to unparsed
DeleteAndReopen(r, user_id, transaction_id) ==
    /\ req[r].op = "idle"
    /\ txs' = IF Owns(user_id, transaction_id)
              THEN [txs EXCEPT ![transaction_id] = Deleted]
              ELSE txs
    /\ sms' = [i \in DOMAIN sms |->
                 IF Owns(user_id, transaction_id) /\ txs[transaction_id].sms_message_id = i
                 THEN [sms[i] EXCEPT !.parsed = FALSE]
                 ELSE sms[i]]
    /\ Respond(r, "delete", user_id, transaction_id, 0,
               Owns(user_id, transaction_id), <<>>)
    /\ calls' = calls + 1
    /\ UNCHANGED <<last, cancelled, now, probe>>

\* DELETE /transactions/{transaction_id}
DeleteOne(r, user_id, transaction_id) ==
    /\ req[r].op = "idle"
    /\ txs' = IF Owns(user_id, transaction_id)
              THEN [txs EXCEPT ![transaction_id] = Deleted]
              ELSE txs
    /\ Respond(r, "delete", user_id, transaction_id, 0,
               Owns(user_id, transaction_id), <<>>)
    /\ calls' = calls + 1
    /\ UNCHANGED <<sms, last, cancelled, now, probe>>

\* the same, while no other request is in progress
DeleteTransaction(r, user_id, transaction_id) ==
    /\ \A q \in Slots : req[q].op = "idle"
    /\ DeleteOne(r, user_id, transaction_id)

\* GET /sms/{sms_id}
GetSmsMessage(r, user_id, sms_id) ==
    /\ \A q \in Slots : req[q].op = "idle"
    /\ Respond(r, "get_sms", user_id, 0, sms_id, OwnsSms(user_id, sms_id),
               IF OwnsSms(user_id, sms_id)
               THEN <<[sms_id |-> sms_id, transaction_id |-> 0]>>
               ELSE <<>>)
    /\ calls' = calls + 1
    /\ UNCHANGED <<sms, txs, last, cancelled, now, probe>>

\* DELETE /sms/{sms_id}
DeleteSmsMessage(r, user_id, sms_id) ==
    /\ \A q \in Slots : req[q].op = "idle"
    /\ sms' = IF OwnsSms(user_id, sms_id)
              THEN [sms EXCEPT ![sms_id] = DeletedSms]
              ELSE sms
    /\ Respond(r, "delete_sms", user_id, 0, sms_id, OwnsSms(user_id, sms_id), <<>>)
    /\ calls' = calls + 1
    /\ UNCHANGED <<txs, last, cancelled, now, probe>>

\* the transaction POST /sms/ has made of the first message, whose answer
\* was the example of the prompt
IngestedEntry ==
    LET transaction ==
            NewTransaction("u1", 1, process_sms_intelligently(SmsResponses[4], 60).v)
    IN  [transaction EXCEPT !.category = AutoCategory(transaction)]

\* the transactions of the two owners the collection is filled from: for
\* each owner the same subscription in two months
BoundaryLedger ==
    << LedgerEntry("u1", Str(s_Netflix), 199, 2, "spent", FALSE),
       LedgerEntry("u1", Str(s_Netflix), 199, 33, "spent", FALSE),
       LedgerEntry("u2", Str(s_Netflix), 199, 2, "spent", FALSE),
       LedgerEntry("u2", Str(s_Netflix), 199, 33, "spent", FALSE) >>

RECURSIVE KeepOf(_, _, _)
KeepOf(ledger, i, S) ==
    IF i > Len(ledger) THEN <<>>
    ELSE (IF i \in S THEN <<ledger[i]>> ELSE <<>>) \o KeepOf(ledger, i + 1, S)

\* two messages, one of each owner; the first one either consumed, with its
\* transaction, or not yet; and some of the transactions of BoundaryLedger
InitBoundary ==
    /\ \E consumed \in BOOLEAN, S \in SUBSET DOMAIN BoundaryLedger :
          /\ sms = <<[NewSms("u1") EXCEPT !.parsed = consumed], NewSms("u2")>>
          /\ txs = (IF consumed THEN <<IngestedEntry>> ELSE <<>>)
                      \o KeepOf(BoundaryLedger, 1, S)
    /\ req = [r \in Slots |-> IdleReq]
    /\ calls = 0
    /\ last = [u \in Users |-> NoCall]
    /\ cancelled = {}
    /\ now = 60
    /\ probe = NoProbe

\* the ids a client may name: those of the collection and one of no document
TxIds == DOMAIN txs \cup {Len(txs) + 1}

SmsIds == DOMAIN sms \cup {Len(sms) + 1}

\* a request begins
BoundaryCall ==
    \/ \E u \in Users, id \in TxIds : GetTransaction(1, u, id)
    \/ \E u \in Users : ListTransactions(1, u)
    \/ \E u \in Users, id \in TxIds, body \in UpdateBodies :
          UpdateTransaction(1, u, id, body)
    \/ \E u \in Users, id \in TxIds : DeleteTransaction(1, u, id)
    \/ \E u \in Users, id \in SmsIds : GetSmsMessage(1, u, id)
    \/ \E u \in Users, id \in SmsIds : DeleteSmsMessage(1, u, id)
    \/ \E u \in Users : BeginRescan(1, u, TRUE)
    \/ \E u \in Users : DetectRecurring(1, u)
    \/ \E u \in Users : GetAnalytics(1, u, None, None)

NextBoundary ==
    \/ calls < MaxOps /\ BoundaryCall
    \/ GetUnparsed(1)
    \/ \E i \in {1, 4} : ProcessSmsWith(1, SmsResponses[i], i)
    \/ CreateTransaction(1)
    \/ Categorize(1)
    \/ MarkSmsAsParsed(1)
    \/ Finish(1)

SpecBoundary == InitBoundary /\ [][NextBoundary]_vars

\* the same requests, and the store calls of a rescan may fail
NextBoundaryFaults ==
    \/ NextBoundary
    \/ GetUnparsedFail(1)
    \/ CreateTransactionFail(1)
    \/ CategorizeFail(1)
    \/ MarkSmsAsParsedFail(1)

SpecBoundaryFaults == InitBoundary /\ [][NextBoundaryFaults]_vars

\* ------------------------------- get_analytics, one aggregate at a time

\* get_analytics is called; nothing has been read yet
BeginAnalytics(r, user_id, start_date, end_date) ==
    /\ req[r].op = "idle"
    /\ req' = [req EXCEPT ![r] = [IdleReq EXCEPT !.op = "analytics",
                                                  !.pc = "stats",
                                                  !.user_id = user_id,
                                                  !.window = <<start_date, end_date>>]]
    /\ calls' = calls + 1
    /\ UNCHANGED <<sms, txs, last, cancelled, now, probe>>

\* what the pipelines of this request match in the collection as it is now
MatchingNow(rq) == Matching(rq.user_id, rq.window[1], rq.window[2])

\* the first aggregate: totals, average, failed and recurring counts; an
\* empty result returns the response of zeros
AggregateStats(r) ==
    /\ req[r].op = "analytics" /\ req[r].pc = "stats"
    /\ LET S == MatchingNow(req[r])
           now_out == Analytics(S, <<>>, <<>>)
       IN  req' = IF S = {}
                  THEN [req EXCEPT ![r].pc = "done", ![r].out = ZeroResponse]
                  ELSE [req EXCEPT ![r].pc = "types",
                                   ![r].out.total_transactions = now_out.total_transactions,
                                   ![r].out.total_amount = now_out.total_amount,
                                   ![r].out.average_amount = now_out.average_amount,
                                   ![r].out.failed_transactions = now_out.failed_transactions,
                                   ![r].out.recurring_transactions = now_out.recurring_transactions]
    /\ UNCHANGED <<sms, txs, calls, last, cancelled, now, probe>>

\* type_pipeline
AggregateTypes(r) ==
    /\ req[r].op = "analytics" /\ req[r].pc = "types"
    /\ LET now_out == Analytics(MatchingNow(req[r]), <<>>, <<>>) IN
       req' = [req EXCEPT ![r].pc = "merchants",
                          ![r].out.transaction_count_by_type = now_out.transaction_count_by_type,
                          ![r].out.amount_by_type = now_out.amount_by_type]
    /\ UNCHANGED <<sms, txs, calls, last, cancelled, now, probe>>

\* merchant_pipeline
AggregateMerchants(r) ==
    /\ req[r].op = "analytics" /\ req[r].pc = "merchants"
    /\ \E merchant_sorted \in SortedByAmount(GroupBy(MatchingNow(req[r]), MerchantOf)) :
          req' = [req EXCEPT ![r].pc = "categories",
                             ![r].out.top_merchants =
                                 TopMerchants(Limit(merchant_sorted, TopLimit))]
    /\ UNCHANGED <<sms, txs, calls, last, cancelled, now, probe>>

\* category_pipeline
AggregateCategories(r) ==
    /\ req[r].op = "analytics" /\ req[r].pc = "categories"
    /\ \E category_sorted \in SortedByAmount(GroupBy(MatchingNow(req[r]), CategoryOf)) :
          req' = [req EXCEPT ![r].pc = "trends",
                             ![r].out.top_categories =
                                 TopCategories(Limit(category_sorted, TopLimit))]
    /\ UNCHANGED <<sms, txs, calls, last, cancelled, now, probe>>

\* trend_pipeline, then the response is built
AggregateTrends(r) ==
    /\ req[r].op = "analytics" /\ req[r].pc = "trends"
    /\ req' = [req EXCEPT ![r].pc = "done",
                          ![r].out.monthly_trends = MonthlyTrends(MatchingNow(req[r]))]
    /\ UNCHANGED <<sms, txs, calls, last, cancelled, now, probe>>

\* the collections of the interleaved requests hold some of these entries
\* of the ledger
InterleavedEntries == {1, 2, 6}

InitInterleaved ==
    /\ sms = <<>>
    /\ txs \in {Keep(1, S) : S \in SUBSET InterleavedEntries}
    /\ req = [r \in Slots |-> IdleReq]
    /\ calls = 0
    /\ last = [u \in Users |-> NoCall]
    /\ cancelled = {}
    /\ now = 60
    /\ probe = NoProbe

\* a POST /transactions/ whose insert is still to come
BeginPostIn(r, user_id, transaction_data) ==
    /\ req[r].op = "idle"
    /\ req' = [req EXCEPT ![r] = [IdleReq EXCEPT !.op = "post",
                                                  !.pc = "insert",
                                                  !.user_id = user_id,
                                                  !.parsed_data = transaction_data]]
    /\ calls' = calls + 1
    /\ UNCHANGED <<sms, txs, last, cancelled, now, probe>>

\* slot 1 reads the analytics while slot 2 creates, updates or deletes
NextInterleaved ==
    \/ calls < MaxRuns /\ \E u \in Users : BeginAnalytics(1, u, None, None)
    \/ AggregateStats(1)
    \/ AggregateTypes(1)
    \/ AggregateMerchants(1)
    \/ AggregateCategories(1)
    \/ AggregateTrends(1)
    \/ calls < MaxRuns /\ \E u \in Users, id \in TxIds : DeleteOne(2, u, id)
    \/ calls < MaxRuns /\ \E u \in Users, id \in TxIds, body \in UpdateBodies :
          UpdateOne(2, u, id, body)
    \/ calls < MaxRuns /\ \E u \in Users :
          BeginPostIn(2, u, TransactionCreate(Str(s_Amazon), "none"))
    \/ CreateTransaction(2)
    \/ Categorize(2)
    \/ \E r \in Slots : Finish(r)

SpecInterleaved == InitInterleaved /\ [][NextInterleaved]_vars

\* ------------------------------------- the recurring flag over time

\* the subscription of u1: the same day of three months, the oldest of them
\* on the first day of the window
FlagEntries == {1, 2, 3}

InitFlags ==
    /\ sms = <<>>
    /\ txs \in {Keep(1, S) : S \in SUBSET FlagEntries}
    /\ req = [r \in Slots |-> IdleReq]
    /\ calls = 0
    /\ last = [u \in Users |-> NoCall]
    /\ cancelled = {}
    /\ now = 60
    /\ probe = NoProbe

\* detections, edits, deletes and creates of one owner, and time passing
NextFlags ==
    \/ calls < MaxCalls /\ DetectRecurring(1, "u1")
    \/ calls < MaxCalls /\ \E id \in TxIds, body \in UpdateBodies :
          UpdateTransaction(1, "u1", id, body)
    \/ calls < MaxCalls /\ \E id \in TxIds : DeleteTransaction(1, "u1", id)
    \/ BeginPost(1, "u1", TransactionCreate(Str(s_Netflix), "none"))
    \/ CreateTransaction(1)
    \/ Categorize(1)
    \/ Later
    \/ Finish(1)

SpecFlags == InitFlags /\ [][NextFlags]_vars

\* ----------------------------------------- the candidates of a manual create

\* a reference number that ends with a line feed
s_REF1nl == <<"R","E","F","1","\n">>

\* the amounts a client sends: positive, zero, negative
PostAmounts == {500, 0, 0 - 5}

\* the reference numbers a client sends: null, empty, letters and digits,
\* with a dash, with a line feed at the end
PostReferences ==
    {None, Str(<<>>), Str(s_REF123), Str(s_REFdash), Str(s_REF1nl)}

\* TransactionCreate(...).dict() of a body with this amount and reference;
\* TransactionCreate has the types of Transaction and no validator
TransactionCreateWith(amount, reference_number) ==
    [TransactionCreate(Str(s_Netflix), "none") EXCEPT
        !.amount = amount, !.reference_number = reference_number]

PostCandidate ==
    \E user_id \in Users, amount \in PostAmounts, reference_number \in PostReferences :
        BeginPost(1, user_id, TransactionCreateWith(amount, reference_number))

\* creates of candidates, then updates and detect_recurring on what was stored
NextStored ==
    \/ PostCandidate
    \/ CreateTransaction(1)
    \/ Categorize(1)
    \/ Finish(1)
    \/ calls < MaxCalls /\ \E u \in Users, id \in TxIds, body \in UpdateBodies :
          UpdateTransaction(1, u, id, body)
    \/ calls < MaxCalls /\ \E u \in Users : DetectRecurring(1, u)

SpecStored == Init /\ [][NextStored]_vars

\* ------------------------------------------------------------- properties

\* the Transactions tagged with SourceMessage i
TaggedWith(i) == {t \in DOMAIN txs : txs[t].sms_message_id = i}

NoneRunning == \A r \in Slots : req[r].op = "idle"

\* the classifier's answer number i is a transaction with a kind of the
\* closed set and a positive amount
AnswersTransaction(i) ==
    LET a == SmsResponses[i]
        o == a.json.f
    IN  /\ a.kind = "text"
        /\ a.json.shape = "dict"
        /\ o["is_transaction"] = Bool(TRUE)
        /\ o["transaction_type"].t = "str"
        /\ \E p \in type_mapping : p[1] = Lower(o["transaction_type"].s)
        /\ o["amount"].t = "num"
        /\ o["amount"].n > 0

\* the classifier's answer number i says: not a transaction
AnswersNoTransaction(i) ==
    /\ SmsResponses[i].kind = "text"
    /\ SmsResponses[i].json.shape = "dict"
    /\ SmsResponses[i].json.f["is_transaction"] = Bool(FALSE)

\* answer number i goes through classification, normalisation and validation
Succeeds(i) ==
    LET out == process_sms_intelligently(SmsResponses[i], now)
    IN  out.st = "ret" /\ out.v.some /\ ValidTransaction(out.v)

\* classify gives Unclassifiable (None) on answer number i
Unclassifiable(i) ==
    LET out == process_sms_intelligently(SmsResponses[i], now)
    IN  out.st = "ret" /\ ~out.v.some

IngestDone(r) == req[r].op = "ingest" /\ req[r].pc = "done" /\ req[r].status = ""

RescanDone(r) == req[r].op = "rescan" /\ req[r].pc = "done"

\* C1: after any sequence of ingest and rescan calls of an owner, also when
\* a classifier call or a store write (the insert of the Transaction, the
\* update of the parsed flag) fails, every SourceMessage has at most one
\* Transaction whose sms_message_id refers to it.
C1_AtMostOneAfterCalls ==
    NoneRunning => \A i \in DOMAIN sms : Cardinality(TaggedWith(i)) <= 1

\* C2: when two requests of one owner interleave at their awaits (an ingest
\* with a rescan, or two rescans), no SourceMessage ends with more than one
\* Transaction tagged with its id.
C2_AtMostOneInterleaved ==
    \A i \in DOMAIN sms : ~(\E t, u \in TaggedWith(i) : t # u)

\* C3: a message whose ingest was cancelled after the save and before the
\* mark is picked up by the owner's next rescan, and once the classifier
\* succeeds on it there it is consumed and exactly one Transaction is tagged
\* with it.
C3_CancelledIsRecovered ==
    \A r \in Slots : RescanDone(r) =>
        /\ \A i \in cancelled :
              (sms[i].user_id = req[r].user_id /\ i \in req[r].snap)
                  => \E k \in DOMAIN req[r].log : req[r].log[k].sms_id = i
        /\ \A k \in DOMAIN req[r].log :
              LET i == req[r].log[k].sms_id IN
              (i \in cancelled /\ Succeeds(req[r].log[k].response))
                  => sms[i].parsed /\ Cardinality(TaggedWith(i)) = 1

\* C4: when the classifier returns a transaction with a kind of the closed
\* set and a positive amount and every store write succeeds, ingest persists
\* exactly one Transaction: owned by the submitter, tagged with the saved
\* message, with the classified kind, amount and counterparty, its category
\* set in the store from the table (shopping for Amazon), and the message is
\* consumed when ingest returns the reference.
C4_IngestPersistsOne ==
    \A r \in Slots :
        (IngestDone(r) /\ AnswersTransaction(req[r].log[1].response)) =>
            LET i == req[r].sms_id
                o == SmsResponses[req[r].log[1].response].json.f
            IN  /\ Cardinality(TaggedWith(i)) = 1
                /\ \A t \in TaggedWith(i) :
                      /\ txs[t].user_id = req[r].user_id
                      /\ <<Lower(o["transaction_type"].s), txs[t].transaction_type>>
                            \in type_mapping
                      /\ txs[t].amount = o["amount"].n
                      /\ txs[t].merchant = o["merchant"]
                      /\ (o["merchant"] = Str(s_Amazon)
                            => txs[t].category = "shopping")
                      /\ (o["merchant"] = Str(s_Netflix)
                            => txs[t].category = "entertainment")
                      /\ req[r].results = <<[sms_id |-> i, transaction_id |-> t]>>
                /\ sms[i].parsed

\* C5: for a message the classifier marks is_transaction=false, ingest
\* returns no transaction, persists no Transaction and leaves the saved
\* SourceMessage with consumed=false.
C5_NotTransactional ==
    \A r \in Slots :
        (IngestDone(r) /\ AnswersNoTransaction(req[r].log[1].response)) =>
            /\ req[r].results = <<>>
            /\ TaggedWith(req[r].sms_id) = {}
            /\ ~sms[req[r].sms_id].parsed

C5_Witness ==
    \E r \in Slots :
        IngestDone(r) /\ AnswersNoTransaction(req[r].log[1].response)

\* the rescan of slot r comes right after a rescan of the same owner
SecondRescanDone(r) ==
    RescanDone(r) /\ last[req[r].user_id].op = "rescan"

\* C6 as claimed: rescan twice in succession for one owner, no new message
\* in between: the second call returns an empty list, whatever was consumed
\* before the first.
C6_SecondRescanEmpty ==
    \A r \in Slots : SecondRescanDone(r) => req[r].results = <<>>

\* C6 as amended: the second of two rescans in succession returns no
\* reference for a message that was consumed when the first returned, and an
\* empty list when the first left no message of the owner unconsumed.
C6_SecondRescanSkipsConsumed ==
    \A r \in Slots : SecondRescanDone(r) =>
        LET before == last[req[r].user_id].parsed IN
        /\ \A k \in DOMAIN req[r].results : req[r].results[k].sms_id \notin before
        /\ (\A i \in DOMAIN sms : sms[i].user_id = req[r].user_id => i \in before)
              => req[r].results = <<>>

C6_Witness ==
    \E r \in Slots :
        /\ SecondRescanDone(r)
        /\ last[req[r].user_id].results # <<>>
        /\ req[r].results = <<>>

\* C7: rescan(owner) re-attempts every SourceMessage of the owner that is
\* unconsumed when it starts, each once; a message on which the classifier
\* succeeds in this rescan gets its Transaction, becomes consumed, and its
\* reference is in the returned list.
C7_RescanRecovers ==
    \A r \in Slots : RescanDone(r) =>
        /\ {req[r].log[k].sms_id : k \in DOMAIN req[r].log} = req[r].snap
        /\ Len(req[r].log) = Cardinality(req[r].snap)
        /\ \A k \in DOMAIN req[r].log :
              LET i == req[r].log[k].sms_id IN
              Succeeds(req[r].log[k].response) =>
                  /\ sms[i].parsed
                  /\ \E j \in DOMAIN req[r].results :
                        /\ req[r].results[j].sms_id = i
                        /\ req[r].results[j].transaction_id \in TaggedWith(i)

\* an earlier call left the message unconsumed, this rescan recovers it
C7_Witness ==
    \E r \in Slots :
        /\ RescanDone(r)
        /\ last[req[r].user_id].op \in {"ingest", "rescan"}
        /\ \E k \in DOMAIN req[r].log : Succeeds(req[r].log[k].response)
        /\ Cardinality(req[r].snap) = 2

C9_ClassifyNeverRaises ==
    /\ probe.stage = "sms" => probe.sms.st = "ret"
    /\ \A r \in Slots :
          (IngestDone(r) /\ Unclassifiable(req[r].log[1].response)) =>
              /\ req[r].results = <<>>
              /\ TaggedWith(req[r].sms_id) = {}
              /\ ~sms[req[r].sms_id].parsed

\* a fenced object with a null field has been classified
C9_Witness ==
    /\ probe.stage = "sms"
    /\ probe.response.text = <<"FENCE_JSON", "JSON", "FENCE">>
    /\ probe.response.json.shape = "dict"
    /\ probe.response.json.f["transaction_type"] = None
    /\ ~probe.sms.v.some

\* an entry that is valid on its own: kind of the closed set, positive
\* numeric amount, a method that is not null
ValidOnItsOwn(e) ==
    /\ e.shape = "dict"
    /\ e.f["transaction_type"].t = "str"
    /\ \E p \in type_mapping : p[1] = Lower(e.f["transaction_type"].s)
    /\ e.f["amount"].t = "num"
    /\ e.f["amount"].n > 0
    /\ e.f["payment_method"].t # "none"

\* C10: in a bulk import each entry that is valid on its own is persisted,
\* whatever is wrong with the other entries of the same batch.
C10_BadEntryNeverBlocks ==
    \A r \in Slots : (req[r].op = "upload" /\ req[r].pc = "done") =>
        \A i \in DOMAIN req[r].items :
            ValidOnItsOwn(req[r].items[i]) =>
                \E k \in DOMAIN req[r].results :
                    LET t == txs[req[r].results[k].transaction_id] IN
                    /\ t.user_id = req[r].user_id
                    /\ t.merchant = req[r].items[i].f["merchant"]
                    /\ t.amount = req[r].items[i].f["amount"].n

\* the entries of the array the classifier returned for the upload of slot r
\* that are objects without the amount key
LackAmount(r) ==
    {i \in DOMAIN req[r].items :
        req[r].items[i].shape = "dict" /\ req[r].items[i].f["amount"] = Absent}

\* an upload has returned normally, and every entry of the classifier's
\* array is valid on its own or lacks the amount
UploadDoneLacking(r) ==
    /\ req[r].op = "upload" /\ req[r].pc = "done" /\ req[r].status = ""
    /\ req[r].items # <<>>
    /\ \A i \in DOMAIN req[r].items :
          i \in LackAmount(r) \/ ValidOnItsOwn(req[r].items[i])

\* C11 as claimed: n entries returned for a bulk import, k of them without
\* the amount field: ingest_file reports found = n, created = n - k and k
\* errors.
C11_FoundCountsAll ==
    \A r \in Slots : UploadDoneLacking(r) =>
        /\ req[r].found = Len(req[r].items)
        /\ Len(req[r].results) = Len(req[r].items) - Cardinality(LackAmount(r))
        /\ req[r].errors = Cardinality(LackAmount(r))

\* C11 as amended: the k entries without amount are dropped before the
\* count: ingest_file reports found = n - k, created = n - k and no error.
C11_FoundCountsKept ==
    \A r \in Slots : UploadDoneLacking(r) =>
        /\ req[r].found = Len(req[r].items) - Cardinality(LackAmount(r))
        /\ Len(req[r].results) = Len(req[r].items) - Cardinality(LackAmount(r))
        /\ req[r].errors = 0

\* three entries, the second without amount
C11_Witness ==
    \E r \in Slots :
        /\ UploadDoneLacking(r)
        /\ Len(req[r].items) = 3
        /\ LackAmount(r) = {2}
        /\ req[r].found = 2

\* the object the classifier returned: the answer, or the entry of the array
AnswerObject ==
    IF OneAnswer THEN probe.response.json.f ELSE probe.response.json.items[1].f

Normalized == probe.stage \in {"sms", "again"}

AmountMissingOrNotPositive(o) ==
    o["amount"] = Absent \/ (o["amount"].t = "num" /\ o["amount"].n <= 0)

\* C12: a classification result whose amount is missing or <= 0 is always
\* rejected, whatever its other fields: no candidate passes normalisation and
\* validation, and no Transaction is persisted for it on the single-message
\* path or on the bulk path.
C12_BadAmountRejected ==
    (probe.stage # "none" /\ AmountMissingOrNotPositive(AnswerObject)) =>
        /\ txs = <<>>
        /\ \A r \in Slots : req[r].results = <<>> /\ req[r].tx_id = 0
        /\ Normalized => ~(probe.sms.v.some /\ probe.sms.v.amount > 0)
        /\ (req[1].op = "ingest" /\ req[1].pc = "done") => ~sms[req[1].sms_id].parsed

\* the parser lets amount -5 through, the Transaction model refuses it
C12_Witness ==
    /\ probe.stage = "asked"
    /\ AnswerObject["amount"] = Num(-5)
    /\ req[1].op = "ingest" /\ req[1].pc = "done"
    /\ req[1].parsed_data.some

\* the enumeration value of the kind strings handed out, "none" for the
\* strings outside the closed set and for a kind that is absent or null
ExpectedKind(o) ==
    CASE o["transaction_type"] = Str(s_spent) -> "spent"
      [] o["transaction_type"] = Str(s_Spent) -> "spent"
      [] o["transaction_type"] = Str(s_DEBIT) -> "debit"
      [] OTHER                                -> "none"

\* the fields besides the kind are those of the prompt's example
RestIsExample(o) ==
    \A f \in Fields \ {"transaction_type"} : o[f] = ExampleFields[f]

\* C13: a kind that, compared without case, is not in the closed set is
\* always rejected (no candidate, no Transaction); a kind of the set, in any
\* letter case, maps to its enumeration value.
C13_KindClosedSet ==
    probe.stage # "none" =>
        LET k == ExpectedKind(AnswerObject) IN
        /\ k = "none" =>
              /\ txs = <<>>
              /\ Normalized => ~probe.sms.v.some
              /\ \A r \in Slots : req[r].pc \notin {"insert", "categorize", "mark"}
        /\ k # "none" =>
              /\ (Normalized /\ probe.sms.v.some) => probe.sms.v.transaction_type = k
              /\ \A t \in DOMAIN txs : txs[t].transaction_type = k
              /\ (Normalized /\ RestIsExample(AnswerObject)) => probe.sms.v.some
              /\ (RestIsExample(AnswerObject) /\ req[1].pc = "done") => Len(txs) = 1

C13_Witness ==
    /\ probe.stage = "asked"
    /\ AnswerObject["transaction_type"] = Str(s_DEBIT)
    /\ req[1].pc = "done"
    /\ Len(txs) = 1
    /\ txs[1].transaction_type = "debit"

\* C14: with is_transaction=true, a kind of the closed set and a positive
\* numeric amount, method and date never cause rejection: a method that is
\* absent, null or outside the closed set gives method = null, a date that is
\* absent, null or not ISO-8601 gives the current time, and a candidate is
\* produced in every case.
C14_MethodDateFallback ==
    (Normalized /\ ExpectedKind(AnswerObject) # "none"
                         /\ AnswerObject["amount"] = Num(500)) =>
        /\ probe.sms.st = "ret"
        /\ probe.sms.v.some
        /\ probe.sms.v.payment_method =
              (IF AnswerObject["payment_method"] = Str(s_card) THEN "card" ELSE "none")
        /\ probe.sms.v.transaction_date =
              (IF AnswerObject["transaction_date"] = Str(s_jan15) THEN 15
                                                                   ELSE probe.at)

\* C15 as claimed: normalisation is pure: two runs on the same classifier
\* output, at any two times, give the same outcome, the date included.
C15_SameOutcome ==
    probe.stage = "again" => probe.again = probe.sms

\* C15 as amended: two runs on the same classifier output give the same
\* outcome but for the date: it is the same when the output's date is an
\* ISO-8601 string, and the time of each run otherwise.
C15_SameOutcomeButDate ==
    probe.stage = "again" =>
        /\ [probe.again EXCEPT !.v.transaction_date = 0]
              = [probe.sms EXCEPT !.v.transaction_date = 0]
        /\ AnswerObject["transaction_date"] = Str(s_jan15)
              => probe.again.v.transaction_date = probe.sms.v.transaction_date
        /\ (probe.again.v.some /\ AnswerObject["transaction_date"] # Str(s_jan15))
              => probe.again.v.transaction_date = now

\* two runs a day apart on an output with an ISO date
C15_Witness ==
    /\ probe.stage = "again"
    /\ now = 61
    /\ AnswerObject["transaction_date"] = Str(s_jan15)
    /\ probe.again.v.some
    /\ probe.again.v.transaction_date = 15

\* what the table order gives each counterparty that is sent: the earliest
\* row with a keyword inside the lower-cased name, "none" for no such row
EarliestCategory ==
    {<<s_Amazon, "shopping">>, <<s_Netflix, "entertainment">>,
     <<s_Salary, "none">>, <<s_AmazonFood, "grocery">>,
     <<s_AMAZONPRIME, "shopping">>, <<s_Uber, "transport">>,
     <<s_Cola, "transport">>, <<s_HotelGas, "utilities">>,
     <<s_Clinic, "healthcare">>, <<s_School, "education">>,
     <<s_Flights, "travel">>}

\* a POST /transactions/ has created its transaction and has not answered yet
Posted(r) == req[r].op = "post" /\ req[r].pc = "done" /\ req[r].tx_id # 0

\* C16: a created transaction that was sent with a category, or without a
\* counterparty, keeps the category it was sent with; any other gets the
\* category of the earliest table row with a keyword inside its lower-cased
\* counterparty, and keeps what it was sent with when there is no such row
C16_FirstMatchingCategory ==
    \A r \in Slots :
        Posted(r) =>
            LET sent == req[r].parsed_data
                got  == txs[req[r].tx_id].category
            IN  IF sent.category \notin {"none", ""} \/ sent.merchant \in {None, Str(<<>>)}
                THEN got = sent.category
                ELSE \E e \in EarliestCategory :
                        /\ e[1] = sent.merchant.s
                        /\ got = IF e[2] = "none" THEN sent.category ELSE e[2]

\* a counterparty with keywords of two rows got the earlier row's category
C16_Witness ==
    \E r \in Slots :
        /\ Posted(r)
        /\ req[r].parsed_data.merchant = Str(s_AmazonFood)
        /\ req[r].parsed_data.category = "none"
        /\ txs[req[r].tx_id].category = "grocery"

\* the places of the owner's transactions that have a counterparty and a date
\* within the 180 days that end at the current time
Trailing(user_id) ==
    {i \in DOMAIN txs : /\ txs[i].user_id = user_id
                        /\ txs[i].merchant # None
                        /\ now - RecurringDays <= txs[i].transaction_date
                        /\ txs[i].transaction_date <= now}

\* two transactions with the same counterparty, amount and day of the month
SameTriple(i, j) ==
    /\ txs[i].merchant = txs[j].merchant
    /\ txs[i].amount = txs[j].amount
    /\ DayOfMonth(txs[i].transaction_date) = DayOfMonth(txs[j].transaction_date)

\* the places group g of a list of groups names as its members
IdsOf(results, g) ==
    {results[g].transactions[k].id : k \in DOMAIN results[g].transactions}

\* this step is a run of detect_recurring for user_id
DetectStep(user_id) ==
    /\ req[1].op = "idle"
    /\ req'[1].op = "detect"
    /\ req'[1].user_id = user_id

\* C17: a run of detect_recurring for an owner returns one group for each
\* triple (counterparty, amount, day of month) that at least 2 of the owner's
\* transactions of the trailing 180 days with a counterparty share, with
\* exactly those transactions as members and their number as count, in
\* descending count, and turns the recurring flag on for exactly the members
C17_GroupsOfTrailingWindow ==
    [][\A user_id \in Users :
        DetectStep(user_id) =>
            LET results == req'[1].results
                window  == Trailing(user_id)
                Class(i) == {j \in window : SameTriple(i, j)}
            IN  /\ \A g \in DOMAIN results :
                      /\ results[g].frequency >= 2
                      /\ results[g].frequency = Len(results[g].transactions)
                      /\ results[g].frequency = Cardinality(IdsOf(results, g))
                      /\ \E i \in window :
                            /\ IdsOf(results, g) = Class(i)
                            /\ results[g].merchant = txs[i].merchant
                            /\ results[g].amount = txs[i].amount
                            /\ results[g].day_of_month = DayOfMonth(txs[i].transaction_date)
                /\ \A i \in window :
                      Cardinality(Class(i)) >= 2 =>
                          Cardinality({g \in DOMAIN results : i \in IdsOf(results, g)}) = 1
                /\ \A g, h \in DOMAIN results :
                      g < h => results[g].frequency >= results[h].frequency
                /\ DOMAIN txs' = DOMAIN txs
                /\ \A i \in DOMAIN txs :
                      txs'[i] = [txs[i] EXCEPT !.is_recurring =
                                    @ \/ \E g \in DOMAIN results : i \in IdsOf(results, g)]
    ]_vars

\* the groups of a list of groups, whatever their order
GroupSet(results) == {results[g] : g \in DOMAIN results}

\* this step is a run of detect_recurring for user_id whose previous request
\* was a run of detect_recurring too
SecondDetectStep(user_id) ==
    /\ DetectStep(user_id)
    /\ last[user_id].op = "detect"

\* no transaction of user_id has left the 180 days since the previous request
NoneAgedOut(user_id) ==
    \A i \in DOMAIN txs :
        txs[i].user_id = user_id =>
            ~ /\ last[user_id].at - RecurringDays <= txs[i].transaction_date
              /\ txs[i].transaction_date < now - RecurringDays

\* C18 as stated: a second run of detect_recurring on the same transactions
\* returns the groups of the first (keys, counts and members) and changes no
\* transaction
C18_SameGroupsAndFlags ==
    [][\A user_id \in Users :
        SecondDetectStep(user_id) =>
            /\ GroupSet(req'[1].results) = GroupSet(last[user_id].results)
            /\ txs' = txs
    ]_vars

\* C18, with the clock: a second run of detect_recurring on the same
\* transactions changes no transaction, and returns the groups of the first
\* (keys, counts and members) when no transaction of the owner has left the
\* trailing 180 days between the two runs
C18_SameGroupsWhileInWindow ==
    [][\A user_id \in Users :
        SecondDetectStep(user_id) =>
            /\ NoneAgedOut(user_id) =>
                  GroupSet(req'[1].results) = GroupSet(last[user_id].results)
            /\ txs' = txs
    ]_vars

\* a second run has returned the groups of the first, two of them
C18_Witness ==
    /\ req[1].op = "detect"
    /\ req[1].pc = "done"
    /\ last[req[1].user_id].op = "detect"
    /\ Len(req[1].results) = 2
    /\ GroupSet(req[1].results) = GroupSet(last[req[1].user_id].results)

\* get_analytics has built its response for slot r and has not answered yet
Answered(r) == req[r].op = "analytics" /\ req[r].pc = "done"

\* the transactions of the owner of request r, in stored order, that are
\* dated from the start to the end of the request's window, both included
Windowed(r) ==
    SelectSeq(txs, LAMBDA t :
        /\ t.user_id = req[r].user_id
        /\ req[r].window[1] = None \/ req[r].window[1].n <= t.transaction_date
        /\ req[r].window[2] = None \/ t.transaction_date <= req[r].window[2].n)

\* the sum of the amounts of a sequence of transactions
RECURSIVE Amounts(_)
Amounts(q) == IF q = <<>> THEN 0 ELSE Head(q).amount + Amounts(Tail(q))

OfKind(q, kind) == SelectSeq(q, LAMBDA t : t.transaction_type = kind)

InMonth(q, year, month) ==
    SelectSeq(q, LAMBDA t : /\ YearOf(t.transaction_date) = year
                            /\ MonthOf(t.transaction_date) = month)

\* C19: the snapshot counts and sums exactly the owner's transactions dated
\* within the window, both ends included; its average times the count is the
\* sum; it counts the failed and the recurring ones, gives count and amount
\* for each kind that occurs and for each (year, month) that occurs, months in
\* chronological order; with no transaction it is all zeros and empty lists
C19_SnapshotOfWindow ==
    \A r \in Slots :
        Answered(r) =>
            LET q   == Windowed(r)
                out == req[r].out
                trends == out.monthly_trends
            IN  /\ out.total_transactions = Len(q)
                /\ out.total_amount = Amounts(q)
                /\ out.average_amount.den > 0
                /\ out.average_amount.num * Len(q) = Amounts(q) * out.average_amount.den
                /\ q = <<>> => out.average_amount = Whole(0)
                /\ out.failed_transactions =
                       Len(SelectSeq(q, LAMBDA t : t.is_failed = Bool(TRUE)))
                /\ out.recurring_transactions =
                       Len(SelectSeq(q, LAMBDA t : t.is_recurring))
                /\ DOMAIN out.transaction_count_by_type =
                       {q[k].transaction_type : k \in DOMAIN q}
                /\ DOMAIN out.amount_by_type = {q[k].transaction_type : k \in DOMAIN q}
                /\ \A kind \in DOMAIN out.transaction_count_by_type :
                      /\ out.transaction_count_by_type[kind] = Len(OfKind(q, kind))
                      /\ out.amount_by_type[kind] = Amounts(OfKind(q, kind))
                /\ \A k \in DOMAIN q :
                      \E m \in DOMAIN trends :
                          /\ trends[m].year = YearOf(q[k].transaction_date)
                          /\ trends[m].month = MonthOf(q[k].transaction_date)
                /\ \A m \in DOMAIN trends :
                      /\ trends[m].count > 0
                      /\ trends[m].count =
                             Len(InMonth(q, trends[m].year, trends[m].month))
                      /\ trends[m].amount =
                             Amounts(InMonth(q, trends[m].year, trends[m].month))
                /\ \A m, n \in DOMAIN trends :
                      m < n => \/ trends[m].year < trends[n].year
                               \/ /\ trends[m].year = trends[n].year
                                  /\ trends[m].month < trends[n].month
                /\ q = <<>> => /\ out.top_merchants = <<>>
                               /\ out.top_categories = <<>>
                               /\ trends = <<>>

\* a snapshot of a window from 2025-01-02 to 2025-02-02 that holds a
\* transaction of each of the two days, recurring ones among them, over two
\* months and two kinds
C19_Witness ==
    \E r \in Slots :
        /\ Answered(r)
        /\ req[r].window = <<Num(2), Num(33)>>
        /\ \E k \in DOMAIN Windowed(r) : Windowed(r)[k].transaction_date = 2
        /\ \E k \in DOMAIN Windowed(r) : Windowed(r)[k].transaction_date = 33
        /\ req[r].out.recurring_transactions >= 2
        /\ req[r].out.failed_transactions = 1
        /\ Len(req[r].out.monthly_trends) = 2
        /\ Cardinality(DOMAIN req[r].out.transaction_count_by_type) >= 2

\* a snapshot of an owner without a transaction in the window
C19_WitnessEmpty ==
    \E r \in Slots :
        /\ Answered(r)
        /\ Windowed(r) = <<>>
        /\ txs # <<>>

\* the counterparties that are not null of a sequence of transactions
Named(q) == {q[k].merchant : k \in DOMAIN q} \ {None}

\* the categories that are not null of a sequence of transactions
Categorized(q) == {q[k].category : k \in DOMAIN q} \ {"none"}

AmountOfMerchant(q, merchant) ==
    Amounts(SelectSeq(q, LAMBDA t : t.merchant = merchant))

AmountOfCategory(q, category) ==
    Amounts(SelectSeq(q, LAMBDA t : t.category = category))

\* C20: top_merchants lists the up to 10 counterparties that are not null with
\* the greatest summed amounts, each once with its sum, in descending amount:
\* all of them when there are fewer than 10, exactly 10 otherwise; and so
\* does top_categories for the categories
C20_TopTenNamed ==
    \A r \in Slots :
        Answered(r) =>
            LET q    == Windowed(r)
                tops == req[r].out.top_merchants
                cats == req[r].out.top_categories
            IN  /\ Len(tops) = IF Cardinality(Named(q)) < TopLimit
                               THEN Cardinality(Named(q)) ELSE TopLimit
                /\ \A k \in DOMAIN tops :
                      /\ tops[k].merchant \in Named(q)
                      /\ tops[k].amount = AmountOfMerchant(q, tops[k].merchant)
                      /\ \A m \in Named(q) :
                            \/ \E j \in DOMAIN tops : tops[j].merchant = m
                            \/ AmountOfMerchant(q, m) <= tops[k].amount
                /\ \A j, k \in DOMAIN tops :
                      j < k => /\ tops[j].amount >= tops[k].amount
                               /\ tops[j].merchant # tops[k].merchant
                /\ Len(cats) = IF Cardinality(Categorized(q)) < TopLimit
                               THEN Cardinality(Categorized(q)) ELSE TopLimit
                /\ \A k \in DOMAIN cats :
                      /\ cats[k].category \in Categorized(q)
                      /\ cats[k].amount = AmountOfCategory(q, cats[k].category)
                      /\ \A c \in Categorized(q) :
                            \/ \E j \in DOMAIN cats : cats[j].category = c
                            \/ AmountOfCategory(q, c) <= cats[k].amount
                /\ \A j, k \in DOMAIN cats :
                      j < k => /\ cats[j].amount >= cats[k].amount
                               /\ cats[j].category # cats[k].category

\* this step is taken by a request of owner a: it begins, goes on or is
\* answered
ActsFor(a) ==
    \/ req[1].user_id = a
    \/ req[1].op = "idle" /\ req'[1].user_id = a

\* the transactions and messages the answer in rq names
NamedTransactions(rq) ==
    IF rq.op = "detect"
    THEN UNION {IdsOf(rq.results, g) : g \in DOMAIN rq.results}
    ELSE {rq.results[k].transaction_id : k \in DOMAIN rq.results} \ {0}

NamedMessages(rq) ==
    IF rq.op = "detect" THEN {}
    ELSE {rq.results[k].sms_id : k \in DOMAIN rq.results} \ {0}

\* C21: a step of a request of owner a changes no transaction and no message
\* of another owner; its answer names none of them, and a snapshot counts
\* none of them; a get, update or delete that names the id of another
\* owner's entity is answered with 404
C21_OwnersApart ==
    [][\A a \in Users :
        ActsFor(a) =>
            /\ \A i \in DOMAIN txs :
                  txs[i].user_id \in Users \ {a} => txs'[i] = txs[i]
            /\ \A i \in DOMAIN sms :
                  sms[i].user_id \in Users \ {a} => sms'[i] = sms[i]
            /\ req'[1].pc = "done" =>
                  /\ \A t \in NamedTransactions(req'[1]) : txs'[t].user_id = a
                  /\ \A m \in NamedMessages(req'[1]) : sms'[m].user_id = a
                  /\ req'[1].op = "analytics" =>
                        req'[1].out.total_transactions =
                            Cardinality({i \in DOMAIN txs : txs[i].user_id = a})
                  /\ /\ req'[1].op \in {"get", "update", "delete"}
                     /\ req'[1].tx_id \in DOMAIN txs
                     /\ txs[req'[1].tx_id].user_id # a
                     => req'[1].status = "not_found"
                  /\ /\ req'[1].op \in {"get_sms", "delete_sms"}
                     /\ req'[1].sms_id \in DOMAIN sms
                     /\ sms[req'[1].sms_id].user_id # a
                     => req'[1].status = "not_found"
    ]_vars

\* an owner has named a transaction of the other owner in a delete, has got
\* 404, and the transaction is still there
C21_Witness ==
    /\ req[1].op = "delete"
    /\ req[1].pc = "done"
    /\ req[1].status = "not_found"
    /\ req[1].tx_id \in DOMAIN txs
    /\ txs[req[1].tx_id].user_id \in Users \ {req[1].user_id}

\* C22: a message is stored with parsed = False; its flag becomes True only
\* in the mark step of an ingest or a rescan that works on this message, when
\* a transaction tagged with it is in the collection; a flag that is True
\* stays True; owner, sender and text of a stored message never change
C22_ConsumedOnlyAfterTransaction ==
    [][\A i \in DOMAIN sms' :
        IF i \notin DOMAIN sms
        THEN sms'[i].parsed = FALSE
        ELSE /\ sms'[i].user_id = sms[i].user_id
             /\ sms'[i].sender = sms[i].sender
             /\ sms'[i].message_text = sms[i].message_text
             /\ sms[i].parsed => sms'[i].parsed
             /\ ~sms[i].parsed /\ sms'[i].parsed =>
                   /\ \E r \in Slots : /\ req[r].op \in {"ingest", "rescan"}
                                       /\ req[r].pc = "mark"
                                       /\ req[r].sms_id = i
                   /\ TaggedWith(i) # {}
    ]_vars

\* a rescan has marked a message that an earlier request had left unconsumed
C22_Witness ==
    \E r \in Slots :
        /\ RescanDone(r)
        /\ \E k \in DOMAIN req[r].results :
              /\ sms[req[r].results[k].sms_id].parsed
              /\ TaggedWith(req[r].results[k].sms_id) # {}

\* C23: every stored transaction has a positive amount, a kind of the closed
\* set, a method that is null or of the closed set, and a reference number
\* that is null or consists of letters and digits only
C23_StoredAreValid ==
    \A i \in DOMAIN txs :
        txs[i] # Deleted =>
            /\ txs[i].amount > 0
            /\ txs[i].transaction_type \in TransactionType
            /\ txs[i].payment_method \in PaymentMethod \cup {"none"}
            /\ \/ txs[i].reference_number = None
               \/ /\ txs[i].reference_number.t = "str"
                  /\ OnlyAlnum(txs[i].reference_number.s)

\* C24: a request that ends in a step where a store operation failed (a
\* step that no working store call takes) ends as a failure: it does not
\* answer like a request whose store calls worked
C24_StoreFailureSurfaces ==
    [][\A r \in {1} :
          Fault(r) /\ ~Step(r) /\ req'[r].pc = "done"
              => req'[r].status = "error"]_vars

\* C25: between two requests, whether the last one completed or stopped on
\* a store failure, no stored message with parsed = False has a transaction
\* tagged with its id
C25_NoUnconsumedWithTransaction ==
    NoneRunning =>
        \A i \in DOMAIN sms : ~sms[i].parsed => TaggedWith(i) = {}

\* the sum of the values of a function with a finite domain
RECURSIVE SumOf(_)
SumOf(f) ==
    IF DOMAIN f = {} THEN 0
    ELSE LET k == CHOOSE k \in DOMAIN f : TRUE
         IN  f[k] + SumOf([j \in DOMAIN f \ {k} |-> f[j]])

\* C26: in every returned snapshot the counts by kind add up to
\* total_transactions, the monthly counts add up to total_transactions, and
\* failed_transactions and recurring_transactions are at most
\* total_transactions, also when writes of the owner's transactions
\* interleave with get_analytics
C26_SnapshotAddsUp ==
    \A r \in Slots : Answered(r) =>
        LET out == req[r].out IN
        /\ SumOf(out.transaction_count_by_type) = out.total_transactions
        /\ SumOf([k \in DOMAIN out.monthly_trends |-> out.monthly_trends[k].count])
               = out.total_transactions
        /\ out.failed_transactions <= out.total_transactions
        /\ out.recurring_transactions <= out.total_transactions

\* an upload has returned its result with success = True
UploadDone(r) ==
    req[r].op = "upload" /\ req[r].pc = "done" /\ req[r].status = ""

\* C27: in every result of process_backup_file, transactions_created plus
\* the number of errors is transactions_found; the created transactions are
\* in the collection, different from each other, owned by the caller and
\* without a message id; and an upload lists a transaction when, and only
\* when, it has stored it, so that transactions_created counts what the
\* call persisted
C27_UploadCountsAddUp ==
    /\ [](\A r \in Slots : UploadDone(r) =>
            /\ Len(req[r].results) + req[r].errors = req[r].found
            /\ \A k \in DOMAIN req[r].results :
                  LET id == req[r].results[k].transaction_id IN
                  /\ id \in DOMAIN txs
                  /\ txs[id].user_id = req[r].user_id
                  /\ txs[id].sms_message_id = 0
                  /\ \A j \in DOMAIN req[r].results :
                        req[r].results[j].transaction_id = id => j = k)
    /\ [][\A r \in Slots :
            (req[r].op = "upload" /\ req'[r].op = "upload") =>
                /\ Len(txs') # Len(txs) =>
                      /\ Len(txs') = Len(txs) + 1
                      /\ req'[r].pc = "categorize"
                      /\ req'[r].tx_id = Len(txs')
                /\ req[r].pc = "categorize" =>
                      req'[r].results =
                          Append(req[r].results,
                                 [sms_id |-> 0, transaction_id |-> req[r].tx_id])
                /\ req[r].pc # "categorize" => req'[r].results = req[r].results]_vars

\* an upload of three entries has returned: two were created, the insert of
\* one failed
C27_Witness ==
    \E r \in Slots :
        /\ UploadDone(r)
        /\ req[r].found = 3
        /\ Len(req[r].results) = 2
        /\ req[r].errors = 1
        /\ Len(txs) = 2

\* C28: a message that is consumed stays consumed and gets no further
\* transaction in any step, in particular not after its transaction was
\* deleted and the owner runs a rescan
C28_NoSecondAfterDelete ==
    [][\A i \in DOMAIN sms :
          (sms[i].parsed /\ sms[i] # DeletedSms) =>
              /\ i \in DOMAIN sms' /\ sms'[i].parsed
              /\ {t \in DOMAIN txs' : txs'[t].sms_message_id = i} \subseteq TaggedWith(i)
      ]_vars

\* the owner deleted the transaction of the consumed first message and then
\* ran a rescan, which has returned: the message has no transaction
C28_Witness ==
    /\ RescanDone(1)
    /\ req[1].user_id = "u1"
    /\ last["u1"].op = "delete"
    /\ sms[1].parsed
    /\ txs # <<>> /\ txs[1] = Deleted
    /\ TaggedWith(1) = {}

\* the entry a rescan appends for the message and transaction it works on
Reference(rq) == [sms_id |-> rq.sms_id, transaction_id |-> rq.tx_id]

\* C29: in a rescan no failure of the classifier, the validation or a store
\* write ends the run: when it returns, every message that was unparsed at
\* its start has been attempted exactly once and nothing else has; the list
\* has at most one reference per message, each to a stored transaction of
\* that message; and a transaction the run stores goes on to the category
\* step and the mark step, where its reference is appended, and no other
\* step changes the list
C29_RescanPassesFailures ==
    /\ [](\A r \in Slots : RescanDone(r) =>
            /\ \A i \in req[r].snap :
                  Cardinality({k \in DOMAIN req[r].log : req[r].log[k].sms_id = i}) = 1
            /\ \A k \in DOMAIN req[r].log : req[r].log[k].sms_id \in req[r].snap
            /\ \A k \in DOMAIN req[r].results :
                  /\ req[r].results[k].sms_id \in req[r].snap
                  /\ req[r].results[k].transaction_id \in DOMAIN txs
                  /\ txs[req[r].results[k].transaction_id].sms_message_id
                        = req[r].results[k].sms_id
                  /\ \A j \in DOMAIN req[r].results :
                        req[r].results[j].sms_id = req[r].results[k].sms_id => j = k)
    /\ [][\A r \in Slots :
            (req[r].op = "rescan" /\ req'[r].op = "rescan") =>
                /\ Len(txs') # Len(txs) =>
                      /\ txs' = Append(txs, txs'[Len(txs')])
                      /\ txs'[Len(txs')].sms_message_id = req[r].sms_id
                      /\ req'[r].pc = "categorize"
                      /\ req'[r].tx_id = Len(txs')
                /\ req[r].pc = "categorize" =>
                      /\ req'[r].pc = "mark"
                      /\ Reference(req'[r]) = Reference(req[r])
                /\ req[r].pc = "mark" =>
                      req'[r].results = Append(req[r].results, Reference(req[r]))
                /\ req[r].pc # "mark" => req'[r].results = req[r].results
      ]_vars

\* a rescan of two unparsed messages has returned: the first it attempted
\* gave no transaction, the second gave the one reference of the list
C29_Witness ==
    \E r \in Slots :
        /\ RescanDone(r)
        /\ Cardinality(req[r].snap) = 2
        /\ Len(req[r].log) = 2
        /\ Len(req[r].results) = 1
        /\ req[r].results[1].sms_id = req[r].log[2].sms_id
        /\ Succeeds(req[r].log[1].response)

\* C30: a transaction is stored with is_recurring = False, and a stored
\* transaction whose flag is True keeps it in every step in which it stays
\* in the collection
C30_FlagStaysSet ==
    [][\A i \in DOMAIN txs' :
          IF i \notin DOMAIN txs
          THEN ~txs'[i].is_recurring
          ELSE (txs[i].is_recurring /\ txs'[i] # Deleted) => txs'[i].is_recurring
      ]_vars

\* a detection has returned no group for the owner after a delete, an edit
\* of the counterparty or a tick of the clock, and a transaction that an
\* earlier detection flagged is still flagged
C30_Witness ==
    /\ req[1].op = "detect" /\ req[1].pc = "done"
    /\ req[1].results = <<>>
    /\ last["u1"].op \in {"delete", "update", "detect"}
    /\ \E i \in DOMAIN txs : txs[i].user_id = "u1" /\ txs[i].is_recurring

====
